---- MODULE Spec2Model ----
(***************************************************************************)
(* Schedule-of-Assessments optimizer: the consensus verdict (pattern / LLM *)
(* / arbitration), the optimization run, and the React front end that      *)
(* stores and displays a run's result.                                     *)
(*                                                                         *)
(* The back end (reconcile, runOptimization) is not among the source files *)
(* of the front end; it is modelled from the design document.  Everything  *)
(* the browser does is modelled from the components' code.                 *)
(*                                                                         *)
(* Numbers.  Confidences are percentages.  The mean of two whole           *)
(* percentages may end in .5, so every confidence is held in fixed point,  *)
(* in half-percent units: Pct(90) is 90 %, Pct(87) + 1 is 87.5 %.          *)
(***************************************************************************)
EXTENDS Integers, Sequences, FiniteSets, TLC

VARIABLES
    \* ---- the reconciler on its own (specification SpecConsensus)
    patternResult,   \* the pattern matcher's signal handed to reconcile
    llmResult,       \* the LLM validator's signal handed to reconcile
    arbitrator,      \* how the arbitration collaborator behaves if invoked
    outcome,         \* what reconcile returned: verdict and arbitrator calls
    consensusInfo,   \* prop of the mounted MCPConsensusDetails (or undefined)
    isExpanded,      \* MCPConsensusDetails: useState(false)
    details,         \* what MCPConsensusDetails has rendered
    \* ---- the optimization run and the pages around it (specification Spec)
    route,           \* the router's location: "/upload" or "/results"
    schedule,        \* ScheduleUpload: useState<Schedule | null>(null)
    isOptimizing,    \* ScheduleUpload: useState(false)
    inflight,        \* POST /optimize-schedule requests not yet settled
    response,        \* the response about to settle one of them
    run,             \* the back end's run that produced that response
    sessionStorage,  \* sessionStorage['optimizationResult']
    result,          \* OptimizationResults: useState<OptimizationResult | null>
    activeTab,       \* OptimizationResults: useState('comparison')
    page,            \* what OptimizationResults has rendered
    runs,            \* optimizations started so far
    \* ---- the Burden Calculator on its own (specification SpecBurden)
    rawMetrics,      \* the raw burden metrics of a schedule
    burdenScore,     \* the BurdenScore computed from them, and its badge
    \* ---- the Rules Engine on its own (specification SpecRules)
    soa,             \* the schedule handed to optimize
    firstRun,        \* what optimize(soa) returned
    secondRun,       \* what optimize returned on its own output
    views,           \* what the results page shows of the optimization
    \* ---- the schedule converter (specification SpecConvert)
    mapping_cache,   \* MappingCache: the organisation's mapping, what is stored
    conversion,      \* the convert_schedule call: where it is, what it holds
    \* ---- authentication of the App (specification SpecAuth)
    authState,       \* App: useState<AuthState>
    localStorage,    \* localStorage['token'], localStorage['user']
    location,        \* window.location, and whether the page is unloading
    checkAuth,       \* the mount-time checkAuth: where it is, the token read
    apiRequests,     \* the axios requests: GET /me and one other request
    \* ---- ScheduleTable (specification SpecViews)
    table            \* the duration cells ScheduleTable has rendered

consensusVars ==
    <<patternResult, llmResult, arbitrator, outcome, consensusInfo,
      isExpanded, details>>

runVars ==
    <<route, schedule, isOptimizing, inflight, response, run, sessionStorage,
      result, activeTab, page, runs>>

serviceVars ==
    <<mapping_cache, conversion, authState, localStorage, location,
      checkAuth, apiRequests, table>>

engineVars ==
    <<rawMetrics, burdenScore, soa, firstRun, secondRun, views, serviceVars>>

vars == <<consensusVars, runVars, engineVars>>

-----------------------------------------------------------------------------
(* Values                                                                  *)

Pct(n) == 2 * n

Abs(x) == IF x < 0 THEN -x ELSE x

\* A JavaScript value that is a number or undefined (an optional field, an
\* optional signal).  Absence is a value of its own, never the number 0.
Undefined == [def |-> FALSE, val |-> 0]
Num(n) == [def |-> TRUE, val |-> n]

\* JavaScript truthiness of number | undefined: undefined and 0 are falsy.
Truthy(x) == x.def /\ x.val # 0

\* (x || 0) on number | undefined.
OrZero(x) == IF Truthy(x) THEN x.val ELSE 0

MaxConfidence == 100

\* Grid of the confidences drawn as inputs (whole percentages).
ConfStep == 5

Confidences == {c \in 0..MaxConfidence : c % ConfStep = 0}

Signals == {Undefined} \cup {Num(Pct(c)) : c \in Confidences}

\* The arbitration collaborator either answers with a final confidence or
\* fails (unreachable, timed out).
Arbitrators ==
    {[kind |-> "unreachable", confidence |-> 0],
     [kind |-> "timeout", confidence |-> 0]}
    \cup {[kind |-> "answers", confidence |-> Pct(c)] : c \in Confidences}

-----------------------------------------------------------------------------
(* The Burden Calculator and the Rules Engine before they are used         *)

NoMetrics ==
    [hours |-> 0, travel |-> 0, invasive |-> 0, fasting |-> 0,
     discomfort |-> 0, count |-> 0]

NoBurden == [computed |-> FALSE]

NoSoa == [valid |-> FALSE, visits |-> <<>>]

NotOptimized == [done |-> FALSE]

NoViews == [shown |-> FALSE]

\* null, for a token or a user.
Null == "null"

NoTable == [original |-> <<>>, optimized |-> <<>>]

NoMappings == [org |-> [present |-> FALSE, confidence |-> 0], stored |-> <<>>]

NotCalled == [pc |-> "idle"]

SignedOut == [user |-> Null, token |-> Null, isAuthenticated |-> FALSE]

EmptyStorage == [token |-> Null, user |-> Null]

NoRequest == [phase |-> "none", status |-> 0]

InitServiceVars ==
    /\ mapping_cache = NoMappings
    /\ conversion = NotCalled
    /\ authState = SignedOut
    /\ localStorage = EmptyStorage
    /\ location = [href |-> "/", unloading |-> FALSE]
    /\ checkAuth = [pc |-> "idle", token |-> Null]
    /\ apiRequests = [k \in {"me", "other"} |-> NoRequest]
    /\ table = NoTable

InitEngineVars ==
    /\ InitServiceVars
    /\ rawMetrics = NoMetrics
    /\ burdenScore = NoBurden
    /\ soa = NoSoa
    /\ firstRun = NotOptimized
    /\ secondRun = NotOptimized
    /\ views = NoViews

-----------------------------------------------------------------------------
(* Consensus Reconciler                                                    *)

\* diff <= 20: the two signals agree (boundary included).
WithinThresholdStrict(p, l) == Abs(p - l) < Pct(20)

WithinThresholdWide(p, l) == Abs(p - l) <= Pct(25)

WithinThreshold(p, l) == Abs(p - l) <= Pct(20)

Mean(p, l) == (p + l) \div 2

ConsensusVerdict(method, confidence, pattern, llm, used) ==
    [method |-> method,
     confidence |-> confidence,
     pattern_confidence |-> pattern,
     llm_confidence |-> llm,
     arbitration_used |-> used]

\* reconcile with an arbitrator it cannot do without: when the arbitrator
\* fails there is no verdict to give.
reconcileArbitratorRequired(pattern, llm, arb) ==
    IF pattern.def /\ llm.def
    THEN IF WithinThreshold(pattern.val, llm.val)
         THEN [verdict |-> ConsensusVerdict("pattern & llm agreement",
                   Mean(pattern.val, llm.val), pattern, llm, FALSE),
               arbitrator_calls |-> 0]
         ELSE IF arb.kind = "answers"
         THEN [verdict |-> ConsensusVerdict("llm arbitration used",
                   arb.confidence, pattern, llm, TRUE),
               arbitrator_calls |-> 1]
         ELSE [verdict |-> ConsensusVerdict("not_available",
                   0, pattern, llm, FALSE),
               arbitrator_calls |-> 1]
    ELSE IF pattern.def
    THEN [verdict |-> ConsensusVerdict("pattern matching only",
              pattern.val, pattern, Undefined, FALSE),
          arbitrator_calls |-> 0]
    ELSE IF llm.def
    THEN [verdict |-> ConsensusVerdict("llm only",
              llm.val, Undefined, llm, FALSE),
          arbitrator_calls |-> 0]
    ELSE [verdict |-> ConsensusVerdict("not_available",
              0, Undefined, Undefined, FALSE),
          arbitrator_calls |-> 0]

\* reconcile(patternResult, llmResult): the verdict, and how many times the
\* arbitration collaborator was invoked to reach it.
reconcile(pattern, llm, arb) ==
    IF pattern.def /\ llm.def
    THEN IF WithinThreshold(pattern.val, llm.val)
         THEN [verdict |-> ConsensusVerdict("pattern & llm agreement",
                   Mean(pattern.val, llm.val), pattern, llm, FALSE),
               arbitrator_calls |-> 0]
         ELSE IF arb.kind = "answers"
         THEN [verdict |-> ConsensusVerdict("llm arbitration used",
                   arb.confidence, pattern, llm, TRUE),
               arbitrator_calls |-> 1]
         ELSE [verdict |-> ConsensusVerdict(
                   "pattern matching only (arbitration unavailable)",
                   pattern.val, pattern, llm, FALSE),
               arbitrator_calls |-> 1]
    ELSE IF pattern.def
    THEN [verdict |-> ConsensusVerdict("pattern matching only",
              pattern.val, pattern, Undefined, FALSE),
          arbitrator_calls |-> 0]
    ELSE IF llm.def
    THEN [verdict |-> ConsensusVerdict("llm only",
              llm.val, Undefined, llm, FALSE),
          arbitrator_calls |-> 0]
    ELSE [verdict |-> ConsensusVerdict("not_available",
              0, Undefined, Undefined, FALSE),
          arbitrator_calls |-> 0]

-----------------------------------------------------------------------------
(* MCPConsensusDetails                                                     *)

NoInfo == [given |-> FALSE, info |-> ConsensusVerdict("", 0, Undefined, Undefined, FALSE)]
Info(v) == [given |-> TRUE, info |-> v]

getMethodIcon(info) ==
    IF info.arbitration_used THEN "ExclamationCircleIcon"
    ELSE IF info.confidence >= Pct(80) THEN "CheckCircleIcon"
    ELSE "CpuChipIcon"

\* The "Difference" line of the arbitration tooltip and banner.
ArbitrationDifference(info) ==
    Abs(OrZero(info.pattern_confidence) - OrZero(info.llm_confidence))

getMethodLabelNoUnavailable(info) ==
    IF info.arbitration_used THEN "LLM Arbitration Used"
    ELSE IF Truthy(info.pattern_confidence) /\ Truthy(info.llm_confidence)
            /\ WithinThreshold(info.pattern_confidence.val, info.llm_confidence.val)
    THEN "Pattern & LLM Agreement"
    ELSE IF Truthy(info.pattern_confidence) /\ ~Truthy(info.llm_confidence)
    THEN "Pattern Matching Only"
    ELSE "MCP Analysis Completed"

getMethodLabel(info) ==
    IF info.method = "not_available" THEN "MCP Analysis Not Available"
    ELSE IF info.arbitration_used THEN "LLM Arbitration Used"
    ELSE IF Truthy(info.pattern_confidence) /\ Truthy(info.llm_confidence)
            /\ WithinThreshold(info.pattern_confidence.val, info.llm_confidence.val)
    THEN "Pattern & LLM Agreement"
    ELSE IF Truthy(info.pattern_confidence) /\ ~Truthy(info.llm_confidence)
    THEN "Pattern Matching Only"
    ELSE "MCP Analysis Completed"

\* A confidence row of the expanded panel: shown or not, and the number.
Row(shown, value) == [shown |-> shown, value |-> IF shown THEN value ELSE 0]

NothingRendered ==
    [mounted |-> FALSE, icon |-> "", expanded |-> FALSE, label |-> "",
     overall |-> Row(FALSE, 0), pattern |-> Row(FALSE, 0),
     llm |-> Row(FALSE, 0), arbitration |-> Row(FALSE, 0)]

\* The render of MCPConsensusDetails: null without consensusInfo; the
\* header with the icon; and, when expanded, the label and the rows.
MCPConsensusDetails(props, expanded) ==
    IF ~props.given THEN NothingRendered
    ELSE LET info == props.info IN
         [mounted |-> TRUE,
          icon |-> getMethodIcon(info),
          expanded |-> expanded,
          label |-> IF expanded THEN getMethodLabel(info) ELSE "",
          overall |-> Row(expanded /\ info.confidence > 0, info.confidence),
          pattern |-> Row(expanded /\ info.pattern_confidence.def
                              /\ info.pattern_confidence.val > 0,
                          info.pattern_confidence.val),
          llm |-> Row(expanded /\ info.llm_confidence.def
                          /\ info.llm_confidence.val > 0,
                      info.llm_confidence.val),
          arbitration |-> Row(expanded /\ info.arbitration_used,
                              ArbitrationDifference(info))]

-----------------------------------------------------------------------------
(* JavaScript numbers of the burden cards                                  *)

Finite(n) == [kind |-> "finite", n |-> n]
NaN == [kind |-> "NaN", n |-> 0]
Infinity == [kind |-> "Infinity", n |-> 0]
NegInfinity == [kind |-> "-Infinity", n |-> 0]

\* a / b in IEEE arithmetic for integers a, b with b >= 0, kept exact as a
\* fraction when b > 0.
JsDivide(a, b) ==
    IF b # 0 THEN [kind |-> "finite", num |-> a, den |-> b]
    ELSE IF a = 0 THEN [kind |-> "NaN", num |-> 0, den |-> 1]
    ELSE IF a > 0 THEN [kind |-> "Infinity", num |-> 0, den |-> 1]
    ELSE [kind |-> "-Infinity", num |-> 0, den |-> 1]

\* Math.round(q * 100): the nearest integer, a half rounded up; NaN and the
\* infinities are returned as they are.
MathRoundPercent(q) ==
    IF q.kind = "finite"
    THEN Finite((2 * 100 * q.num + q.den) \div (2 * q.den))
    ELSE [kind |-> q.kind, n |-> 0]

\* (q * 100).toFixed(1), in tenths: the nearest tenth, a half rounded away
\* from zero; "NaN" and "Infinity" are printed as they are.
ToFixed1Percent(q) ==
    IF q.kind = "finite"
    THEN IF q.num >= 0
         THEN Finite((2 * 1000 * q.num + q.den) \div (2 * q.den))
         ELSE Finite(-((2 * 1000 * (-q.num) + q.den) \div (2 * q.den)))
    ELSE [kind |-> q.kind, n |-> 0]

\* OptimizationResults: Math.round(((original - optimized) / original) * 100)
patientBurdenReduction(original, optimized) ==
    MathRoundPercent(JsDivide(original - optimized, original))

\* OptimizationComparison: ((original - optimized) / original * 100).toFixed(1)
patientBurdenImprovement(original, optimized) ==
    ToFixed1Percent(JsDivide(original - optimized, original))

-----------------------------------------------------------------------------
(* Schedules, collaborators and the Optimization Orchestrator              *)

\* Largest total burden score drawn (scores are whole numbers here).
MaxScore == 1

\* Most warnings the compliance collaborator returns.
MaxWarnings == 1

\* Optimizations started in one behaviour.
MaxRuns == 1

\* The confidences of a run's signals: the two ends of the range (every
\* confidence of the 5% grid is given to reconcile under SpecConsensus).
RunConfidences == {0, MaxConfidence}

RunSignals == {Undefined} \cup {Num(Pct(c)) : c \in RunConfidences}

\* The arbitrator of a run fails in either way or answers with the middle
\* of the range.
RunArbitrators ==
    {[kind |-> "unreachable", confidence |-> 0],
     [kind |-> "timeout", confidence |-> 0],
     [kind |-> "answers", confidence |-> Pct(MaxConfidence \div 2)]}

\* A schedule as the run sees it: structurally valid or not, and the total
\* patient burden score the Burden Calculator gives it.
NoSchedule == [loaded |-> FALSE, valid |-> TRUE, original |-> 0]

Schedules ==
    {[loaded |-> TRUE, valid |-> TRUE, original |-> o] : o \in 0..MaxScore}
    \cup {[loaded |-> TRUE, valid |-> FALSE, original |-> 0]}

\* What the Rules Engine makes of a valid schedule: the optimized total
\* score, and a suggestion for a schedule it improved.
NoEngine == [optimized |-> 0, suggestions |-> 0]

RulesOutputs(s) ==
    {[optimized |-> p, suggestions |-> IF p < s.original THEN 1 ELSE 0] :
        p \in 0..s.original}

\* The compliance collaborator: it fails, or returns a list of warnings
\* (each held by its severity).
NotAsked == [asked |-> FALSE, ok |-> FALSE, warnings |-> <<>>]

ComplianceFailed == [asked |-> TRUE, ok |-> FALSE, warnings |-> <<>>]

Warnings(n) == [i \in 1..n |-> "High"]

ComplianceSucceeded(n) == [asked |-> TRUE, ok |-> TRUE, warnings |-> Warnings(n)]

\* It fails, finds nothing, or returns the longest list.
ComplianceOutcomes ==
    {ComplianceFailed} \cup {ComplianceSucceeded(n) : n \in {0, MaxWarnings}}

\* (original_total - optimized_total) / original_total * 100 as a fraction,
\* and 0 when original_total is 0.
ImprovementPercentage(original, optimized) ==
    IF original = 0 THEN [num |-> 0, den |-> 1]
    ELSE [num |-> (original - optimized) * 100, den |-> original]

NoResult ==
    [present |-> FALSE, original_total |-> 0, optimized_total |-> 0,
     suggestions |-> 0, warnings |-> <<>>,
     improvement_percentage |-> [num |-> 0, den |-> 1],
     summary |-> [suggestions |-> 0, improvement |-> [num |-> 0, den |-> 1]],
     mcp_consensus_info |-> NoInfo.info]

OptimizationResult(s, engine, warnings, verdict) ==
    [present |-> TRUE,
     original_total |-> s.original,
     optimized_total |-> engine.optimized,
     suggestions |-> engine.suggestions,
     warnings |-> warnings,
     improvement_percentage |-> ImprovementPercentage(s.original, engine.optimized),
     summary |-> [suggestions |-> engine.suggestions,
                  improvement |-> ImprovementPercentage(s.original, engine.optimized)],
     mcp_consensus_info |-> verdict]

NoResponse == [to |-> 0, kind |-> "none", error |-> "", result |-> NoResult]

Failure(id, error) == [to |-> id, kind |-> "error", error |-> error, result |-> NoResult]

\* The warnings the Orchestrator keeps: none when the collaborator failed.
WarningsKept(compliance) ==
    IF compliance.ok THEN compliance.warnings ELSE <<>>

\* runOptimization(schedule): burden, Rules Engine, burden again, the
\* compliance check, the consensus verdict, and the assembled result.  An
\* invalid schedule aborts the run with InvalidScheduleError before any
\* collaborator is asked.
runOptimization(id, s, engine, compliance, verdict) ==
    IF ~s.valid THEN Failure(id, "InvalidScheduleError")
    ELSE [to |-> id, kind |-> "ok", error |-> "",
          result |-> OptimizationResult(s, engine, WarningsKept(compliance),
                                        verdict)]

-----------------------------------------------------------------------------
(* JSON.stringify / JSON.parse of a result                                 *)

\* The keys JSON.stringify writes for the consensus block: a key whose
\* value is undefined is left out.
WrittenKeys(v) ==
    {"method", "confidence", "arbitration_used"}
    \cup (IF v.pattern_confidence.def THEN {"pattern_confidence"} ELSE {})
    \cup (IF v.llm_confidence.def THEN {"llm_confidence"} ELSE {})

StringifyInfo(v) ==
    [k \in WrittenKeys(v) |->
        CASE k = "pattern_confidence" -> v.pattern_confidence.val
          [] k = "llm_confidence" -> v.llm_confidence.val
          [] OTHER -> v[k]]

\* Reading a key of the parsed object: undefined when the text has none.
ParsedNumber(t, k) == IF k \in DOMAIN t THEN Num(t[k]) ELSE Undefined

ParseInfo(t) ==
    ConsensusVerdict(t.method, t.confidence,
                     ParsedNumber(t, "pattern_confidence"),
                     ParsedNumber(t, "llm_confidence"),
                     t.arbitration_used)

JSONstringify(r) == [r EXCEPT !.mcp_consensus_info = StringifyInfo(@)]

JSONparse(t) == [t EXCEPT !.mcp_consensus_info = ParseInfo(@)]

\* sessionStorage without the key 'optimizationResult'.
NothingStored == JSONstringify(NoResult)

-----------------------------------------------------------------------------
(* OptimizationResults                                                     *)

UploadPage ==
    [view |-> "ScheduleUpload", summary |-> NoResult.summary,
     patientBurdenReduction |-> Finite(0), suggestionsTab |-> 0,
     warningsTab |-> 0, comparison |-> [shown |-> FALSE, improvement |-> Finite(0)],
     warnings |-> ""]

LoadingPage == [UploadPage EXCEPT !.view = "Loading results..."]

\* The warnings tab: the all-clear card for an empty list, the cards
\* otherwise; nothing while another tab is active.
WarningsTabAlwaysList(r, tab) ==
    IF tab # "warnings" THEN "" ELSE "warning cards"

WarningsTab(r, tab) ==
    IF tab # "warnings" THEN ""
    ELSE IF Len(r.warnings) = 0 THEN "No compliance warnings detected"
    ELSE "warning cards"

\* The render of OptimizationResults for its state.
OptimizationResults(r, tab) ==
    IF ~r.present THEN LoadingPage
    ELSE [view |-> "Optimization Complete",
          summary |-> r.summary,
          patientBurdenReduction |->
              patientBurdenReduction(r.original_total, r.optimized_total),
          suggestionsTab |-> r.suggestions,
          warningsTab |-> Len(r.warnings),
          comparison |->
              IF tab = "comparison"
              THEN [shown |-> TRUE,
                    improvement |-> patientBurdenImprovement(r.original_total,
                                                             r.optimized_total)]
              ELSE [shown |-> FALSE, improvement |-> Finite(0)],
          warnings |-> WarningsTab(r, tab)]

\* The consensusInfo prop OptimizationResults passes down.
ConsensusProp(r) == IF r.present THEN Info(r.mcp_consensus_info) ELSE NoInfo

-----------------------------------------------------------------------------
(* The reconciler and its display on their own                             *)

NoOutcome == [done |-> FALSE, verdict |-> NoInfo.info, arbitrator_calls |-> 0]

NoRun == [ran |-> FALSE, schedule |-> NoSchedule, engine |-> NoEngine,
          compliance |-> NotAsked]

\* The browser on /upload with nothing loaded, stored or in flight.
InitRunVars ==
    /\ route = "/upload"
    /\ schedule = NoSchedule
    /\ isOptimizing = FALSE
    /\ inflight = {}
    /\ response = NoResponse
    /\ run = NoRun
    /\ sessionStorage = NothingStored
    /\ result = NoResult
    /\ activeTab = "comparison"
    /\ page = UploadPage
    /\ runs = 0
    /\ InitEngineVars

InitConsensus ==
    /\ patternResult \in Signals
    /\ llmResult \in Signals
    /\ arbitrator \in Arbitrators
    /\ outcome = NoOutcome
    /\ consensusInfo = NoInfo
    /\ isExpanded = FALSE
    /\ details = NothingRendered
    /\ InitRunVars

\* reconcile is called once on the two signals.
Reconcile ==
    /\ ~outcome.done
    /\ LET r == reconcile(patternResult, llmResult, arbitrator) IN
       outcome' = [done |-> TRUE, verdict |-> r.verdict,
                   arbitrator_calls |-> r.arbitrator_calls]
    /\ UNCHANGED <<patternResult, llmResult, arbitrator, consensusInfo,
                   isExpanded, details>>
    /\ UNCHANGED <<runVars, engineVars>>

\* The verdict is handed to MCPConsensusDetails, which renders collapsed.
ShowVerdict ==
    /\ outcome.done
    /\ ~consensusInfo.given
    /\ consensusInfo' = Info(outcome.verdict)
    /\ details' = MCPConsensusDetails(consensusInfo', isExpanded)
    /\ UNCHANGED <<patternResult, llmResult, arbitrator, outcome, isExpanded>>
    /\ UNCHANGED <<runVars, engineVars>>

\* onClick={() => setIsExpanded(!isExpanded)} and the re-render it causes.
ToggleExpanded ==
    /\ details.mounted
    /\ isExpanded' = ~isExpanded
    /\ details' = MCPConsensusDetails(consensusInfo, isExpanded')
    /\ UNCHANGED <<patternResult, llmResult, arbitrator, outcome, consensusInfo>>
    /\ UNCHANGED <<runVars, engineVars>>

NextConsensus == Reconcile \/ ShowVerdict \/ ToggleExpanded

SpecConsensus == InitConsensus /\ [][NextConsensus]_vars

-----------------------------------------------------------------------------
(* The optimization run, from the upload page to the results page          *)

NotYetAsked == [kind |-> "unreachable", confidence |-> 0]

InitCollaborators ==
    /\ patternResult = Undefined
    /\ llmResult = Undefined
    /\ arbitrator = NotYetAsked
    /\ outcome = NoOutcome

Init ==
    /\ InitCollaborators
    /\ consensusInfo = NoInfo
    /\ isExpanded = FALSE
    /\ details = NothingRendered
    /\ InitRunVars

collaboratorVars == <<patternResult, llmResult, arbitrator, outcome>>

detailsVars == <<consensusInfo, isExpanded, details>>

\* A ScheduleUpload that was left no longer receives the state updates of
\* the requests it started.
Unmounted(requests) == {[r EXCEPT !.live = FALSE] : r \in requests}

\* onDrop (or the demo data) gives ScheduleUpload a schedule.
LoadSchedule ==
    /\ route = "/upload"
    /\ ~schedule.loaded
    /\ \E s \in Schedules : schedule' = s
    /\ UNCHANGED <<route, isOptimizing, inflight, response, run,
                   sessionStorage, result, activeTab, page, runs>>
    /\ UNCHANGED <<collaboratorVars, detailsVars>>
    /\ UNCHANGED engineVars

clearSchedule ==
    /\ route = "/upload"
    /\ schedule.loaded
    /\ schedule' = NoSchedule
    /\ UNCHANGED <<route, isOptimizing, inflight, response, run,
                   sessionStorage, result, activeTab, page, runs>>
    /\ UNCHANGED <<collaboratorVars, detailsVars>>
    /\ UNCHANGED engineVars

\* A handleOptimize that leaves setIsOptimizing(true) out.
handleOptimizeUnmarked ==
    /\ route = "/upload"
    /\ schedule.loaded
    /\ ~isOptimizing
    /\ runs < MaxRuns
    /\ runs' = runs + 1
    /\ inflight' = inflight \cup
           {[id |-> runs + 1, schedule |-> schedule, live |-> TRUE]}
    /\ UNCHANGED <<route, schedule, isOptimizing, response, run,
                   sessionStorage, result, activeTab, page>>
    /\ UNCHANGED <<collaboratorVars, detailsVars>>
    /\ UNCHANGED engineVars

\* handleOptimize up to its await: the button is enabled while isOptimizing
\* is false, and nothing is sent without a schedule.
handleOptimize ==
    /\ route = "/upload"
    /\ schedule.loaded
    /\ ~isOptimizing
    /\ runs < MaxRuns
    /\ isOptimizing' = TRUE
    /\ runs' = runs + 1
    /\ inflight' = inflight \cup
           {[id |-> runs + 1, schedule |-> schedule, live |-> TRUE]}
    /\ UNCHANGED <<route, schedule, response, run, sessionStorage, result,
                   activeTab, page>>
    /\ UNCHANGED <<collaboratorVars, detailsVars>>
    /\ UNCHANGED engineVars

\* What the arbitrator can do in a run with these signals: it has an
\* outcome only where the two signals are there to be arbitrated.
ArbitratorsOf(p, l) ==
    IF p.def /\ l.def /\ ~WithinThreshold(p.val, l.val)
    THEN RunArbitrators ELSE {NotYetAsked}

\* POST /optimize-schedule: the Orchestrator runs on the posted schedule
\* with whatever its collaborators do this time.
optimizeSchedule ==
    /\ response = NoResponse
    /\ \E req \in inflight :
        IF req.schedule.valid
        THEN \E engine \in RulesOutputs(req.schedule),
                compliance \in ComplianceOutcomes,
                p \in RunSignals, l \in RunSignals :
             \E a \in ArbitratorsOf(p, l) :
                LET r == reconcile(p, l, a) IN
                /\ patternResult' = p
                /\ llmResult' = l
                /\ arbitrator' = a
                /\ outcome' = [done |-> TRUE, verdict |-> r.verdict,
                               arbitrator_calls |-> r.arbitrator_calls]
                /\ run' = [ran |-> TRUE, schedule |-> req.schedule,
                           engine |-> engine, compliance |-> compliance]
                /\ response' = runOptimization(req.id, req.schedule, engine,
                                               compliance, r.verdict)
        ELSE /\ run' = [ran |-> TRUE, schedule |-> req.schedule,
                        engine |-> NoEngine, compliance |-> NotAsked]
             /\ response' = runOptimization(req.id, req.schedule, NoEngine,
                                            NotAsked, NoInfo.info)
             /\ UNCHANGED collaboratorVars
    /\ UNCHANGED <<route, schedule, isOptimizing, inflight, sessionStorage,
                   result, activeTab, page, runs>>
    /\ UNCHANGED detailsVars
    /\ UNCHANGED engineVars

\* The request fails before the Orchestrator answers (network, server).
RequestFails ==
    /\ response = NoResponse
    /\ \E req \in inflight : response' = Failure(req.id, "Network Error")
    /\ UNCHANGED <<route, schedule, isOptimizing, inflight, run,
                   sessionStorage, result, activeTab, page, runs>>
    /\ UNCHANGED <<collaboratorVars, detailsVars>>
    /\ UNCHANGED engineVars

\* The request the response in transit answers.
Answered == CHOOSE req \in inflight : req.id = response.to

\* The run's collaborators are forgotten once its response is handed over.
ForgetRun ==
    /\ response' = NoResponse
    /\ run' = NoRun
    /\ patternResult' = Undefined
    /\ llmResult' = Undefined
    /\ arbitrator' = NotYetAsked
    /\ outcome' = NoOutcome

\* An effect that shows whatever it read, stored or not.
EnterResultsUnchecked(stored) ==
    /\ schedule' = NoSchedule
    /\ isOptimizing' = FALSE
    /\ activeTab' = "comparison"
    /\ isExpanded' = FALSE
    /\ route' = "/results"
    /\ result' = JSONparse(stored)
    /\ page' = OptimizationResults(result', "comparison")
    /\ consensusInfo' = ConsensusProp(result')
    /\ details' = MCPConsensusDetails(consensusInfo', FALSE)

\* OptimizationResults mounts on /results (ScheduleUpload is left): its
\* effect reads sessionStorage['optimizationResult'] and shows the parsed
\* result, or without one navigates to /upload, where a new ScheduleUpload
\* mounts.
EnterResults(stored) ==
    /\ schedule' = NoSchedule
    /\ isOptimizing' = FALSE
    /\ activeTab' = "comparison"
    /\ isExpanded' = FALSE
    /\ IF stored.present
       THEN /\ route' = "/results"
            /\ result' = JSONparse(stored)
            /\ page' = OptimizationResults(result', "comparison")
            /\ consensusInfo' = ConsensusProp(result')
            /\ details' = MCPConsensusDetails(consensusInfo', FALSE)
       ELSE /\ route' = "/upload"
            /\ result' = NoResult
            /\ page' = UploadPage
            /\ consensusInfo' = NoInfo
            /\ details' = NothingRendered

\* handleOptimize after a successful await: the result is stored, then
\* navigate('/results'); already on /results nothing is mounted anew.
handleOptimize_try ==
    /\ response.kind = "ok"
    /\ sessionStorage' = JSONstringify(response.result)
    /\ IF route = "/results"
       THEN /\ inflight' = inflight \ {Answered}
            /\ UNCHANGED <<route, schedule, isOptimizing, result, activeTab,
                           page, detailsVars>>
       ELSE /\ EnterResults(sessionStorage')
            /\ inflight' = Unmounted(inflight \ {Answered})
    /\ ForgetRun
    /\ UNCHANGED runs
    /\ UNCHANGED engineVars

\* A catch block that goes on to the results page all the same.
handleOptimize_catchNavigates ==
    /\ response.kind = "error"
    /\ route' = "/results"
    /\ isOptimizing' = FALSE
    /\ inflight' = inflight \ {Answered}
    /\ ForgetRun
    /\ UNCHANGED <<schedule, sessionStorage, result, activeTab, page, runs>>
    /\ UNCHANGED detailsVars
    /\ UNCHANGED engineVars

\* handleOptimize after a failed await: a toast, and finally
\* setIsOptimizing(false) on the ScheduleUpload that started the request.
handleOptimize_catch ==
    /\ response.kind = "error"
    /\ isOptimizing' = IF Answered.live THEN FALSE ELSE isOptimizing
    /\ inflight' = inflight \ {Answered}
    /\ ForgetRun
    /\ UNCHANGED <<route, schedule, sessionStorage, result, activeTab, page,
                   runs>>
    /\ UNCHANGED detailsVars
    /\ UNCHANGED engineVars

\* The user opens /results from the upload page.
GoToResults ==
    /\ route = "/upload"
    /\ EnterResults(sessionStorage)
    /\ inflight' = Unmounted(inflight)
    /\ UNCHANGED <<response, run, sessionStorage, runs>>
    /\ UNCHANGED collaboratorVars
    /\ UNCHANGED engineVars

\* "Optimize Another Schedule": navigate('/upload').
GoToUpload ==
    /\ route = "/results"
    /\ route' = "/upload"
    /\ schedule' = NoSchedule
    /\ isOptimizing' = FALSE
    /\ result' = NoResult
    /\ activeTab' = "comparison"
    /\ page' = UploadPage
    /\ consensusInfo' = NoInfo
    /\ isExpanded' = FALSE
    /\ details' = NothingRendered
    /\ UNCHANGED <<inflight, response, run, sessionStorage, runs>>
    /\ UNCHANGED collaboratorVars
    /\ UNCHANGED engineVars

setActiveTab ==
    /\ route = "/results"
    /\ \E tab \in {"comparison", "suggestions", "warnings"} :
        /\ tab # activeTab
        /\ activeTab' = tab
        /\ page' = OptimizationResults(result, tab)
    /\ UNCHANGED <<route, schedule, isOptimizing, inflight, response, run,
                   sessionStorage, result, runs>>
    /\ UNCHANGED <<collaboratorVars, detailsVars>>
    /\ UNCHANGED engineVars

Next ==
    \/ LoadSchedule
    \/ clearSchedule
    \/ handleOptimize
    \/ optimizeSchedule
    \/ RequestFails
    \/ handleOptimize_try
    \/ handleOptimize_catch
    \/ GoToResults
    \/ GoToUpload
    \/ setActiveTab
    \/ ToggleExpanded

Spec == Init /\ [][Next]_vars

-----------------------------------------------------------------------------
(* Burden Calculator: the patient burden score and its category band       *)

\* Ceilings of the raw metrics (hours, visits, procedures, fasting
\* requirements, discomfort level); every ceiling divides TimeCeiling.
TimeCeiling == 30
TravelCeiling == 15
InvasiveCeiling == 10
FastingCeiling == 10
DiscomfortCeiling == 10

\* The relative weights, in tenths: they sum to 1.0.
TimeWeight == 3
TravelWeight == 2
InvasiveWeight == 2
FastingWeight == 1
DiscomfortWeight == 2

\* The lower ends of the bands Moderate, High and Very High.
ModerateFrom == 25
HighFrom == 50
VeryHighFrom == 75

\* A raw value against its ceiling: what exceeds the ceiling counts as the
\* ceiling.
Uncapped(raw, ceiling) == raw

Capped(raw, ceiling) == IF raw > ceiling THEN ceiling ELSE raw

\* A component normalized to 0..100 against its ceiling, as a fraction.
Normalized(raw, ceiling) == [num |-> 100 * Capped(raw, ceiling), den |-> ceiling]

\* The number of assessments the mean discomfort is taken over (the mean of
\* no assessment is 0).
MeanOver(m) == IF m.count = 0 THEN 1 ELSE m.count

\* The common denominator of the weighted sum.
ScoreDen(m) == TimeCeiling * MeanOver(m)

Weighted(weight, raw, ceiling, den) ==
    weight * Capped(raw, ceiling) * (den \div ceiling)

\* total_score as a fraction: the weighted sum of the five normalized
\* components.
TotalScore(m) ==
    LET den == ScoreDen(m) IN
    [num |-> 10 * ( Weighted(TimeWeight, m.hours, TimeCeiling, den)
                  + Weighted(TravelWeight, m.travel, TravelCeiling, den)
                  + Weighted(InvasiveWeight, m.invasive, InvasiveCeiling, den)
                  + Weighted(FastingWeight, m.fasting, FastingCeiling, den)
                  + Weighted(DiscomfortWeight, m.discomfort,
                             DiscomfortCeiling * MeanOver(m), den) ),
     den |-> den]

\* Bands with the boundary in the band below.
CategoryBandBoundaryBelow(score) ==
    IF score.num <= ModerateFrom * score.den THEN "Low"
    ELSE IF score.num <= HighFrom * score.den THEN "Moderate"
    ELSE IF score.num <= VeryHighFrom * score.den THEN "High"
    ELSE "Very High"

\* Low < 25, Moderate 25-49, High 50-74, Very High >= 75.
CategoryBand(score) ==
    IF score.num < ModerateFrom * score.den THEN "Low"
    ELSE IF score.num < HighFrom * score.den THEN "Moderate"
    ELSE IF score.num < VeryHighFrom * score.den THEN "High"
    ELSE "Very High"

\* BurdenChart.getCategoryBadge: colors[category] || the gray default.
getCategoryBadge(category) ==
    CASE category = "Low" -> "bg-green-100 text-green-800"
      [] category = "Moderate" -> "bg-yellow-100 text-yellow-800"
      [] category = "High" -> "bg-orange-100 text-orange-800"
      [] category = "Very High" -> "bg-red-100 text-red-800"
      [] OTHER -> "bg-gray-100 text-gray-800"

\* computePatientBurden on the raw metrics of a schedule.
computePatientBurden(m) ==
    [computed |-> TRUE,
     components |->
        [time |-> Normalized(m.hours, TimeCeiling),
         travel |-> Normalized(m.travel, TravelCeiling),
         invasive |-> Normalized(m.invasive, InvasiveCeiling),
         fasting |-> Normalized(m.fasting, FastingCeiling),
         discomfort |-> Normalized(m.discomfort,
                                   DiscomfortCeiling * MeanOver(m))],
     total_score |-> TotalScore(m),
     category |-> CategoryBand(TotalScore(m)),
     badge |-> getCategoryBadge(CategoryBand(TotalScore(m)))]

\* How far above its ceiling a raw metric is drawn.
Excess == 5

\* Raw values around a ceiling: none, half, the ceiling, beyond it.
RawValues(ceiling) == {0, ceiling \div 2, ceiling, ceiling + Excess}

\* The raw metrics of schedules: the discomfort levels of count assessments
\* sum to at most DiscomfortCeiling each, and no more assessments are
\* invasive or fasting than there are.
RawMetrics ==
    {[hours |-> h, travel |-> t, invasive |-> i, fasting |-> f,
      discomfort |-> level * n, count |-> n] :
        h \in RawValues(TimeCeiling), t \in RawValues(TravelCeiling),
        i \in RawValues(InvasiveCeiling), f \in RawValues(FastingCeiling),
        level \in {0, DiscomfortCeiling \div 2, DiscomfortCeiling},
        n \in {InvasiveCeiling + FastingCeiling + 2 * Excess}}

pinnedRules == <<soa, firstRun, secondRun, views, serviceVars>>

InitBurden ==
    /\ InitServiceVars
    /\ rawMetrics \in RawMetrics
    /\ burdenScore = NoBurden
    /\ soa = NoSoa
    /\ firstRun = NotOptimized
    /\ secondRun = NotOptimized
    /\ views = NoViews
    /\ InitCollaborators
    /\ consensusInfo = NoInfo
    /\ isExpanded = FALSE
    /\ details = NothingRendered
    /\ route = "/upload"
    /\ schedule = NoSchedule
    /\ isOptimizing = FALSE
    /\ inflight = {}
    /\ response = NoResponse
    /\ run = NoRun
    /\ sessionStorage = NothingStored
    /\ result = NoResult
    /\ activeTab = "comparison"
    /\ page = UploadPage
    /\ runs = 0

ComputeBurden ==
    /\ ~burdenScore.computed
    /\ burdenScore' = computePatientBurden(rawMetrics)
    /\ UNCHANGED <<rawMetrics, pinnedRules, consensusVars, runVars>>

NextBurden == ComputeBurden

SpecBurden == InitBurden /\ [][NextBurden]_vars

-----------------------------------------------------------------------------
(* Burden Model: assessments, visits, schedules                            *)

\* The assessments schedules are made of.  The two laboratory tests share a
\* category; the scan is long and invasive; the questionnaire can be done
\* remotely.  remote is the mark the Remote Conversion rule sets.
CBC ==
    [name |-> "CBC", category |-> "lab", hours |-> 1, invasive |-> TRUE,
     fasting |-> TRUE, discomfort |-> 6, remote_feasible |-> FALSE,
     remote |-> FALSE]

Urinalysis ==
    [name |-> "Urinalysis", category |-> "lab", hours |-> 1,
     invasive |-> FALSE, fasting |-> FALSE, discomfort |-> 0,
     remote_feasible |-> FALSE, remote |-> FALSE]

MRI ==
    [name |-> "MRI", category |-> "imaging", hours |-> 6, invasive |-> TRUE,
     fasting |-> FALSE, discomfort |-> 8, remote_feasible |-> FALSE,
     remote |-> FALSE]

Questionnaire ==
    [name |-> "Questionnaire", category |-> "questionnaire", hours |-> 3,
     invasive |-> FALSE, fasting |-> FALSE, discomfort |-> 0,
     remote_feasible |-> TRUE, remote |-> FALSE]

Catalogue == <<CBC, Urinalysis, MRI, Questionnaire>>

\* Visit.name: the name given in the protocol, flagged when combined.
VisitName(v) == [base |-> v.id, combined |-> v.combined]

RECURSIVE Total(_)
\* The sum of a sequence of numbers.
Total(numbers) ==
    IF numbers = <<>> THEN 0 ELSE Head(numbers) + Total(Tail(numbers))

RECURSIVE Flatten(_)
\* The assessments of a sequence of visits, in order.
Flatten(visits) ==
    IF visits = <<>> THEN <<>>
    ELSE Head(visits).assessments \o Flatten(Tail(visits))

\* How many assessments of a sequence are invasive, and how many require
\* fasting.
InvasiveCount(assessments) ==
    Cardinality({i \in 1..Len(assessments) : assessments[i].invasive})

FastingCount(assessments) ==
    Cardinality({i \in 1..Len(assessments) : assessments[i].fasting})

\* A visit requires physical presence unless all it holds is marked remote.
FullyRemote(v) ==
    /\ v.assessments # <<>>
    /\ \A i \in 1..Len(v.assessments) : v.assessments[i].remote

\* The raw burden metrics of a sequence of visits.
Metrics(visits) ==
    LET all == Flatten(visits)
    IN  [hours |-> Total([i \in 1..Len(all) |->
                            IF all[i].remote THEN 0 ELSE all[i].hours]),
         travel |-> Cardinality({i \in 1..Len(visits) :
                                   ~FullyRemote(visits[i])}),
         invasive |-> InvasiveCount(all),
         fasting |-> FastingCount(all),
         discomfort |-> Total([i \in 1..Len(all) |-> all[i].discomfort]),
         count |-> Len(all)]

\* The patient total_score of a sequence of visits.
ScoreOf(visits) == TotalScore(Metrics(visits))

\* score <= other, for two scores held as fractions.
ScoreLeq(score, other) == score.num * other.den <= other.num * score.den

\* The estimated burden-reduction percentage of a change, in tenths of a
\* percent: the Burden Calculator on the schedule before and after it.
EstimatedReduction(before, after) ==
    LET b == Metrics(before)
        a == Metrics(after)
        nb == TotalScore(b).num \div 10
        na == TotalScore(a).num \div 10
    IN  IF nb = 0 THEN 0
        ELSE ((nb * MeanOver(a) - na * MeanOver(b)) * 1000)
                 \div (nb * MeanOver(a))

\* The visits of a schedule a suggestion affects.
Affected(visits, ids) == SelectSeq(visits, LAMBDA v : v.id \in ids)

-----------------------------------------------------------------------------
(* Rules Engine: optimize(schedule) -> (transformedSchedule, suggestions)  *)

\* Redundancy Detection: the sliding time window, in days.
RedundancyWindow == 21

\* Visit Consolidation: the proximity window, in days.
ProximityWindow == 14

\* Visit Consolidation: the ceiling on the combined duration, in hours.
DurationCeiling == 8

\* Visit Consolidation: the combined number of invasive and fasting
\* assessments has to stay below this.
ConflictThreshold == 3

\* Rescheduling: whether the rule also moves the visit.  Off by default.
MutateDays == FALSE

RemoveAt(seq, i) == SubSeq(seq, 1, i - 1) \o SubSeq(seq, i + 1, Len(seq))

\* What a rule hands to the next: the visits so far and, in pipeline order,
\* every change made, with the burden score of the visits it affects before
\* and after it.
Pipeline(visits) == [visits |-> visits, steps |-> <<>>]

Suggestion(type, description, ids, before, after, difficulty) ==
    [type |-> type,
     description |-> description,
     visits_affected |-> ids,
     estimated_burden_reduction |-> EstimatedReduction(before, after),
     implementation_difficulty |-> difficulty]

\* The pipeline after one more change.  applied tells whether the change
\* is one of the schedule.
Step(state, suggestion, after) ==
    [visits |-> after,
     steps |-> Append(state.steps,
                      [suggestion |-> suggestion,
                       applied |-> after # state.visits,
                       before |-> ScoreOf(Affected(state.visits,
                                            suggestion.visits_affected)),
                       after |-> ScoreOf(Affected(after,
                                            suggestion.visits_affected))])]

\* Every assessment of every visit, as <<visit index, assessment index>>.
Occurrences(visits) ==
    UNION {{<<i, a>> : a \in 1..Len(visits[i].assessments)} :
             i \in 1..Len(visits)}

\* Visit day ascending, then assessment order.
OccurrenceBefore(o, q) == o[1] < q[1] \/ (o[1] = q[1] /\ o[2] <= q[2])

PairBefore(p, r) ==
    IF p[1] # r[1] THEN OccurrenceBefore(p[1], r[1])
    ELSE OccurrenceBefore(p[2], r[2])

\* Two assessments of one category, in two visits no more than the window
\* apart.
RedundantPairs(visits) ==
    {p \in Occurrences(visits) \X Occurrences(visits) :
        /\ p[1][1] < p[2][1]
        /\ visits[p[1][1]].assessments[p[1][2]].category
             = visits[p[2][1]].assessments[p[2][2]].category
        /\ Abs(visits[p[2][1]].day - visits[p[1][1]].day)
             <= RedundancyWindow}

\* Of a redundant pair the occurrence in the visit with the larger window
\* tolerance is kept; on a tie the one on the earlier day.
Duplicate(visits, p) ==
    LET v == visits[p[1][1]]
        w == visits[p[2][1]]
    IN  IF v.window < w.window THEN p[1]
        ELSE IF v.window > w.window THEN p[2]
        ELSE IF v.day <= w.day THEN p[2] ELSE p[1]

RECURSIVE RedundancyDetection(_)
\* Rule 1.
RedundancyDetection(state) ==
    LET visits == state.visits
        pairs == RedundantPairs(visits)
    IN  IF pairs = {} THEN state
        ELSE LET p == CHOOSE q \in pairs :
                          \A r \in pairs : PairBefore(q, r)
                 o == Duplicate(visits, p)
                 after == [visits EXCEPT
                             ![o[1]].assessments = RemoveAt(@, o[2])]
             IN  RedundancyDetection(
                     Step(state,
                          Suggestion("elimination",
                                     visits[o[1]].assessments[o[2]].name,
                                     {visits[o[1]].id},
                                     visits, after, "Moderate"),
                          after))

Hours(v) ==
    Total([i \in 1..Len(v.assessments) |-> v.assessments[i].hours])

Conflicts(v) == InvasiveCount(v.assessments) + FastingCount(v.assessments)

\* Consolidation whatever the combined invasive and fasting burden.
ConsolidatableWhateverTheBurden(v, w) ==
    /\ Abs(w.day - v.day) <= ProximityWindow
    /\ Hours(v) + Hours(w) <= DurationCeiling

Consolidatable(v, w) ==
    /\ Abs(w.day - v.day) <= ProximityWindow
    /\ Hours(v) + Hours(w) <= DurationCeiling
    /\ Conflicts(v) + Conflicts(w) < ConflictThreshold

\* The earlier visit flagged as combined, the later visit's assessments
\* lost.
MergeLosingLater(v, w) == [v EXCEPT !.combined = TRUE]

\* The later visit's assessments merged into the earlier visit, the result
\* flagged as combined.
Merge(v, w) ==
    [v EXCEPT !.combined = TRUE,
              !.assessments = v.assessments \o w.assessments]

RECURSIVE VisitConsolidation(_)
\* Rule 2.
VisitConsolidation(state) ==
    LET visits == state.visits
        pairs == {i \in 1..(Len(visits) - 1) :
                    Consolidatable(visits[i], visits[i + 1])}
    IN  IF pairs = {} THEN state
        ELSE LET i == CHOOSE j \in pairs : \A k \in pairs : j <= k
                 after == RemoveAt([visits EXCEPT
                                      ![i] = Merge(visits[i], visits[i + 1])],
                                   i + 1)
             IN  VisitConsolidation(
                     Step(state,
                          Suggestion("consolidation", "visits",
                                     {visits[i].id, visits[i + 1].id},
                                     visits, after, "Moderate"),
                          after))

Names(v) == {v.assessments[i].name : i \in 1..Len(v.assessments)}

\* A visit with nothing an adjacent visit does not already capture.
DispensableWhenCaptured(visits, i) ==
    /\ visits[i].assessments # <<>>
    /\ \E j \in {i - 1, i + 1} \cap (1..Len(visits)) :
          Names(visits[i]) \subseteq Names(visits[j])

\* A visit with nothing left, or with nothing an adjacent visit does not
\* already capture.
Dispensable(visits, i) ==
    \/ visits[i].assessments = <<>>
    \/ \E j \in {i - 1, i + 1} \cap (1..Len(visits)) :
          Names(visits[i]) \subseteq Names(visits[j])

RECURSIVE CompleteElimination(_)
\* Rule 3.
CompleteElimination(state) ==
    LET visits == state.visits
        some == {i \in 1..Len(visits) : Dispensable(visits, i)}
    IN  IF some = {} THEN state
        ELSE LET i == CHOOSE j \in some : \A k \in some : j <= k
                 after == RemoveAt(visits, i)
             IN  CompleteElimination(
                     Step(state,
                          Suggestion("elimination", "visit",
                                     {visits[i].id},
                                     visits, after, "Moderate"),
                          after))

\* The assessment, marked remote-eligible and renamed.
MarkedRemoteRenamed(a) ==
    [a EXCEPT !.remote = TRUE, !.name = "Remote assessment"]

\* The assessment, marked remote-eligible; it stays in its visit.
MarkedRemote(a) == [a EXCEPT !.remote = TRUE]

RECURSIVE RemoteConversion(_)
\* Rule 4.
RemoteConversion(state) ==
    LET visits == state.visits
        some == {o \in Occurrences(visits) :
                   /\ visits[o[1]].assessments[o[2]].remote_feasible
                   /\ ~visits[o[1]].assessments[o[2]].remote}
    IN  IF some = {} THEN state
        ELSE LET o == CHOOSE q \in some :
                          \A r \in some : OccurrenceBefore(q, r)
                 after == [visits EXCEPT
                             ![o[1]].assessments[o[2]] = MarkedRemote(@)]
             IN  RemoteConversion(
                     Step(state,
                          Suggestion("remote_conversion",
                                     visits[o[1]].assessments[o[2]].name,
                                     {visits[o[1]].id},
                                     visits, after, "Easy"),
                          after))

\* The windows of two adjacent visits overlap.
Overlap(v, w) == v.day + v.window >= w.day - w.window

\* The later visit, moved clear of the earlier visit's window.
Shifted(v, w) == [w EXCEPT !.day = v.day + v.window + w.window + 1]

RECURSIVE ReschedulingFrom(_, _, _)
ReschedulingFrom(state, i, mutate) ==
    LET visits == state.visits
    IN  IF i >= Len(visits) THEN state
        ELSE IF ~Overlap(visits[i], visits[i + 1])
             THEN ReschedulingFrom(state, i + 1, mutate)
        ELSE LET after == IF mutate
                          THEN [visits EXCEPT
                                  ![i + 1] = Shifted(visits[i], @)]
                          ELSE visits
             IN  ReschedulingFrom(
                     Step(state,
                          Suggestion("rescheduling", "visits",
                                     {visits[i].id, visits[i + 1].id},
                                     visits, after, "Hard"),
                          after),
                     i + 1, mutate)

\* Rule 5, with the day-mutation policy switched on.
ReschedulingMutating(state) == ReschedulingFrom(state, 1, TRUE)

\* Rule 5.
Rescheduling(state) == ReschedulingFrom(state, 1, MutateDays)

\* The final sort: descending by estimated burden reduction, ties in
\* pipeline order.
SortDescending(suggestions) ==
    LET n == Len(suggestions)
        Key(i) == suggestions[i].estimated_burden_reduction
        Rank(i) == 1 + Cardinality({j \in 1..n :
                                      \/ Key(j) > Key(i)
                                      \/ Key(j) = Key(i) /\ j < i})
    IN  [k \in 1..n |-> suggestions[CHOOSE i \in 1..n : Rank(i) = k]]

InvalidScheduleError ==
    [done |-> TRUE, error |-> TRUE, schedule |-> NoSoa,
     suggestions |-> <<>>, steps |-> <<>>, deduplicated |-> <<>>,
     consolidated |-> <<>>]

\* The contract of the Rules Engine.  deduplicated and consolidated keep the
\* visits as rule 1 and rules 1-2 left them.
optimize(input) ==
    IF ~input.valid \/ input.visits = <<>> THEN InvalidScheduleError
    ELSE LET deduplicated == RedundancyDetection(Pipeline(input.visits))
             consolidated == VisitConsolidation(deduplicated)
             final ==
                 Rescheduling(
                     RemoteConversion(CompleteElimination(consolidated)))
         IN  [done |-> TRUE, error |-> FALSE,
              schedule |-> [valid |-> TRUE, visits |-> final.visits],
              suggestions |->
                  SortDescending([i \in 1..Len(final.steps) |->
                                    final.steps[i].suggestion]),
              steps |-> final.steps,
              deduplicated |-> deduplicated.visits,
              consolidated |-> consolidated.visits]

-----------------------------------------------------------------------------
(* The optimized schedule and its suggestions on the results page          *)

\* Array.prototype.sort: stable, ascending by the comparator, whose value
\* on the elements at i and j is compare[i][j].
ArraySort(array, compare) ==
    LET n == Len(array)
        Rank(i) == 1 + Cardinality({j \in 1..n :
                                      \/ compare[j][i] < 0
                                      \/ compare[j][i] = 0 /\ j < i})
    IN  [k \in 1..n |-> array[CHOOSE i \in 1..n : Rank(i) = k]]

\* SuggestionsList, sorting smallest reduction first.
sortedSuggestionsAscending(suggestions) ==
    ArraySort(suggestions,
              [a \in 1..Len(suggestions) |->
                 [b \in 1..Len(suggestions) |->
                    suggestions[a].estimated_burden_reduction
                      - suggestions[b].estimated_burden_reduction]])

\* SuggestionsList: the cards, in the order they are rendered.
sortedSuggestions(suggestions) ==
    ArraySort(suggestions,
              [a \in 1..Len(suggestions) |->
                 [b \in 1..Len(suggestions) |->
                    suggestions[b].estimated_burden_reduction
                      - suggestions[a].estimated_burden_reduction]])

\* OptimizationComparison lists this many suggestions.
SuggestionsListed == 10

\* Array.prototype.slice(0, end).
Slice(array, end) ==
    SubSeq(array, 1, IF Len(array) < end THEN Len(array) ELSE end)

\* Array.prototype.find by day or by name; 0 when nothing is found.
FindVisit(visits, origVisit) ==
    LET found == {i \in 1..Len(visits) :
                    \/ visits[i].day = origVisit.day
                    \/ VisitName(visits[i]) = VisitName(origVisit)}
    IN  IF found = {} THEN 0
        ELSE CHOOSE i \in found : \A j \in found : i <= j

\* OptimizationComparison: one row for each visit of the original schedule.
assessmentChanges(original_schedule, optimized_schedule) ==
    [idx \in 1..Len(original_schedule.visits) |->
        LET origVisit == original_schedule.visits[idx]
            at == FindVisit(optimized_schedule.visits, origVisit)
            originalCount == Len(origVisit.assessments)
        IN  IF at = 0
            THEN [visitName |-> VisitName(origVisit),
                  day |-> origVisit.day,
                  originalCount |-> originalCount,
                  optimizedCount |-> 0,
                  removed |-> originalCount,
                  status |-> "removed"]
            ELSE LET optimizedCount ==
                         Len(optimized_schedule.visits[at].assessments)
                 IN  [visitName |-> VisitName(origVisit),
                      day |-> origVisit.day,
                      originalCount |-> originalCount,
                      optimizedCount |-> optimizedCount,
                      removed |-> originalCount - optimizedCount,
                      status |-> IF originalCount > optimizedCount
                                   THEN "reduced"
                                 ELSE IF originalCount = optimizedCount
                                   THEN "unchanged"
                                 ELSE "increased"]]

\* The visits of a schedule, counted.
TotalAssessmentsAsVisits(visits) == Len(visits)

\* OptimizationComparison: the assessments of a schedule, counted.
TotalAssessments(visits) ==
    Total([i \in 1..Len(visits) |-> Len(visits[i].assessments)])

\* ScheduleTable: which rows of the optimized schedule are highlighted.
HighlightedRows(visits, highlightChanges) ==
    [i \in 1..Len(visits) |-> highlightChanges /\ visits[i].combined]

\* Both views mark the cards at index 0 to 4.
AppliedShown == 5

\* SuggestionsList: which cards carry "Applied in optimization".
AppliedInOptimization(suggestions) ==
    [index \in 1..Len(sortedSuggestions(suggestions)) |->
        index - 1 < AppliedShown]

\* OptimizationComparison: which of the listed suggestions carry "Applied".
AppliedBadges(suggestions) ==
    [idx \in 1..Len(Slice(suggestions, SuggestionsListed)) |->
        idx - 1 < AppliedShown]

\* What the results page shows of a run.
Shown(original_schedule, optimized) ==
    [shown |-> TRUE,
     list |-> sortedSuggestions(optimized.suggestions),
     listApplied |-> AppliedInOptimization(optimized.suggestions),
     comparison |-> Slice(optimized.suggestions, SuggestionsListed),
     comparisonApplied |-> AppliedBadges(optimized.suggestions),
     changes |-> assessmentChanges(original_schedule, optimized.schedule),
     originalTotalAssessments |->
         TotalAssessments(original_schedule.visits),
     optimizedTotalAssessments |->
         TotalAssessments(optimized.schedule.visits),
     highlighted |-> HighlightedRows(optimized.schedule.visits, TRUE)]

-----------------------------------------------------------------------------
(* The Rules Engine run on a schedule, run again on its own output, and    *)
(* the first run shown                                                     *)

MaxVisits == 3

\* The protocol day of the first, second, ... visit.
Days == <<0, 8, 22, 36>>

\* The visit-window tolerances, in days.
Windows == {0, 5}

\* What a visit holds: one assessment of the catalogue, or two that follow
\* one another in it.
Contents ==
    {<<CBC>>, <<Urinalysis>>, <<MRI>>, <<Questionnaire>>,
     <<CBC, Urinalysis>>, <<Urinalysis, MRI>>, <<MRI, Questionnaire>>}

\* A schedule of non-empty visits on ascending days.
Soa(windows, contents) ==
    [valid |-> TRUE,
     visits |-> [i \in DOMAIN windows |->
                   [id |-> i, combined |-> FALSE, day |-> Days[i],
                    window |-> windows[i], assessments |-> contents[i]]]]

pinnedBurden == <<rawMetrics, burdenScore, serviceVars>>

\* The schedule handed to the engine has one to MaxVisits visits, or it is
\* the schedule without visits.
InitRules ==
    /\ \/ soa = NoSoa
       \/ \E n \in 1..MaxVisits :
             \E windows \in [1..n -> Windows], contents \in [1..n -> Contents] :
                soa = Soa(windows, contents)
    /\ firstRun = NotOptimized
    /\ secondRun = NotOptimized
    /\ views = NoViews
    /\ InitServiceVars
    /\ rawMetrics = NoMetrics
    /\ burdenScore = NoBurden
    /\ InitCollaborators
    /\ consensusInfo = NoInfo
    /\ isExpanded = FALSE
    /\ details = NothingRendered
    /\ route = "/upload"
    /\ schedule = NoSchedule
    /\ isOptimizing = FALSE
    /\ inflight = {}
    /\ response = NoResponse
    /\ run = NoRun
    /\ sessionStorage = NothingStored
    /\ result = NoResult
    /\ activeTab = "comparison"
    /\ page = UploadPage
    /\ runs = 0

\* The Orchestrator runs the Rules Engine on the uploaded schedule.
Optimize ==
    /\ firstRun = NotOptimized
    /\ firstRun' = optimize(soa)
    /\ UNCHANGED <<soa, secondRun, views, pinnedBurden, consensusVars,
                   runVars>>

\* The engine is run on its own output.
OptimizeAgain ==
    /\ firstRun # NotOptimized
    /\ ~firstRun.error
    /\ secondRun = NotOptimized
    /\ secondRun' = optimize(firstRun.schedule)
    /\ UNCHANGED <<soa, firstRun, views, pinnedBurden, consensusVars,
                   runVars>>

\* The results page shows the run.
ShowRun ==
    /\ firstRun # NotOptimized
    /\ ~firstRun.error
    /\ views = NoViews
    /\ views' = Shown(soa, firstRun)
    /\ UNCHANGED <<soa, firstRun, secondRun, pinnedBurden, consensusVars,
                   runVars>>

NextRules == Optimize \/ OptimizeAgain \/ ShowRun

SpecRules == InitRules /\ [][NextRules]_vars

-----------------------------------------------------------------------------
(* The views of the results page on any result: SuggestionsList,           *)
(* OptimizationComparison and ScheduleTable                                *)

\* Math.round(n / d) for n >= 0 and d > 0: the nearest integer, a half
\* rounded up.
MathRound(n, d) == (2 * n + d) \div (2 * d)

\* {Math.round(duration / 60)}h
HoursShown(duration) == MathRound(duration, 60)

calculateTotalDuration(visit) ==
    Total([i \in 1..Len(visit.assessments) |->
             visit.assessments[i].duration_minutes])

\* ScheduleTable: the duration cell of each row, "{h}h {m}m".
ScheduleTable(visits) ==
    [i \in 1..Len(visits) |->
        LET duration == calculateTotalDuration(visits[i])
        IN  [duration |-> duration,
             h |-> HoursShown(duration),
             m |-> duration % 60]]

\* Longest suggestion list handed to the views.
MaxSuggestions == 6

\* Most assessments of the visit whose duration is shown.
MaxAssessments == 3

\* duration_minutes of an assessment
Minutes == {15, 30, 45, 60}

\* estimated_burden_reduction of a suggestion
Reductions == {10, 20}

Assessment(minutes) == [name |-> "assessment", duration_minutes |-> minutes]

\* n assessments of half an hour.
HalfHours(n) == [i \in 1..n |-> Assessment(30)]

ShownVisit(id, combined, day, assessments) ==
    [id |-> id, combined |-> combined, day |-> day, window |-> 0,
     assessments |-> assessments]

ShownSchedule(visits) == [valid |-> TRUE, visits |-> visits]

\* The result as the views receive it.
ShownResult(visits, suggestions) ==
    [done |-> TRUE, error |-> FALSE, schedule |-> ShownSchedule(visits),
     suggestions |-> suggestions]

\* A suggestion list with these reductions, the i-th described by i.
SuggestionList(reductions) ==
    [i \in DOMAIN reductions |->
        [type |-> "redundancy", description |-> i, visits_affected |-> {i},
         estimated_burden_reduction |-> reductions[i],
         implementation_difficulty |-> "low"]]

\* The visits an optimized schedule may hold: any id and day of the
\* original ones, combined or not, with none to two assessments.
OptimizedVisits ==
    {ShownVisit(id, combined, Days[d], HalfHours(n)) :
        id \in 1..2, combined \in BOOLEAN, d \in 1..2, n \in 0..2}

\* An uploaded schedule of n visits on ascending days.
Uploaded(counts) ==
    ShownSchedule([i \in DOMAIN counts |->
                     ShownVisit(i, FALSE, Days[i], HalfHours(counts[i]))])

InitViews ==
    /\ \/ \* any suggestion list, for one visit left as it was
          /\ soa = Uploaded(<<1>>)
          /\ \E n \in 0..MaxSuggestions :
                \E reductions \in [1..n -> Reductions] :
                    firstRun = ShownResult(soa.visits,
                                           SuggestionList(reductions))
       \/ \* any pair of schedules, without suggestions
          /\ \E n \in 1..2 : \E counts \in [1..n -> 1..2] :
                soa = Uploaded(counts)
          /\ \E n \in 0..2 : \E visits \in [1..n -> OptimizedVisits] :
                firstRun = ShownResult(visits, <<>>)
       \/ \* one visit with assessments of any duration
          /\ \E n \in 0..MaxAssessments : \E minutes \in [1..n -> Minutes] :
                soa = ShownSchedule(
                          <<ShownVisit(1, FALSE, 0,
                                       [i \in 1..n |->
                                          Assessment(minutes[i])])>>)
          /\ firstRun = ShownResult(soa.visits, <<>>)
    /\ secondRun = NotOptimized
    /\ views = NoViews
    /\ table = NoTable
    /\ mapping_cache = NoMappings
    /\ conversion = NotCalled
    /\ authState = SignedOut
    /\ localStorage = EmptyStorage
    /\ location = [href |-> "/", unloading |-> FALSE]
    /\ checkAuth = [pc |-> "idle", token |-> Null]
    /\ apiRequests = [k \in {"me", "other"} |-> NoRequest]
    /\ rawMetrics = NoMetrics
    /\ burdenScore = NoBurden
    /\ InitCollaborators
    /\ consensusInfo = NoInfo
    /\ isExpanded = FALSE
    /\ details = NothingRendered
    /\ route = "/upload"
    /\ schedule = NoSchedule
    /\ isOptimizing = FALSE
    /\ inflight = {}
    /\ response = NoResponse
    /\ run = NoRun
    /\ sessionStorage = NothingStored
    /\ result = NoResult
    /\ activeTab = "comparison"
    /\ page = UploadPage
    /\ runs = 0

\* The results page renders the result: the suggestion list, the
\* comparison and the two schedule tables.
ShowResult ==
    /\ views = NoViews
    /\ views' = Shown(soa, firstRun)
    /\ table' = [original |-> ScheduleTable(soa.visits),
                 optimized |-> ScheduleTable(firstRun.schedule.visits)]
    /\ UNCHANGED <<soa, firstRun, secondRun, rawMetrics, burdenScore,
                   mapping_cache, conversion, authState, localStorage,
                   location, checkAuth, apiRequests, consensusVars, runVars>>

NextViews == ShowResult

SpecViews == InitViews /\ [][NextViews]_vars

-----------------------------------------------------------------------------
(* The upload and results pages on their own: the back end is what         *)
(* scheduleService.optimizeSchedule returns                                *)

\* A result an optimization earlier in the browser tab's session left in
\* sessionStorage (it outlives a reload of the page).
EarlierResult ==
    OptimizationResult([loaded |-> TRUE, valid |-> TRUE, original |-> 1],
                       [optimized |-> 0, suggestions |-> 1],
                       Warnings(1),
                       reconcile(Undefined, Undefined, NotYetAsked).verdict)

InitPages ==
    /\ InitCollaborators
    /\ consensusInfo = NoInfo
    /\ isExpanded = FALSE
    /\ details = NothingRendered
    /\ route = "/upload"
    /\ schedule = NoSchedule
    /\ isOptimizing = FALSE
    /\ inflight = {}
    /\ response = NoResponse
    /\ run = NoRun
    /\ sessionStorage \in {NothingStored, JSONstringify(EarlierResult)}
    /\ result = NoResult
    /\ activeTab = "comparison"
    /\ page = UploadPage
    /\ runs = 0
    /\ InitEngineVars

\* api.post('/optimize-schedule', schedule) is answered: a result without
\* warnings, or the error of an invalid schedule.
postOptimizeSchedule ==
    /\ response = NoResponse
    /\ \E req \in inflight :
          \E engine \in RulesOutputs(req.schedule) :
              response' = runOptimization(
                              req.id, req.schedule, engine,
                              ComplianceSucceeded(0),
                              reconcile(Undefined, Undefined,
                                        NotYetAsked).verdict)
    /\ UNCHANGED <<route, schedule, isOptimizing, inflight, run,
                   sessionStorage, result, activeTab, page, runs>>
    /\ UNCHANGED <<collaboratorVars, detailsVars>>
    /\ UNCHANGED engineVars

NextPages ==
    \/ LoadSchedule
    \/ clearSchedule
    \/ handleOptimize
    \/ postOptimizeSchedule
    \/ RequestFails
    \/ handleOptimize_try
    \/ handleOptimize_catch
    \/ GoToResults
    \/ GoToUpload
    \/ setActiveTab

\* Every request is answered or fails, and the continuation of
\* handleOptimize runs once its promise is settled.
SpecPages ==
    /\ InitPages
    /\ [][NextPages]_vars
    /\ WF_vars(postOptimizeSchedule \/ RequestFails)
    /\ WF_vars(handleOptimize_try)
    /\ WF_vars(handleOptimize_catch)

-----------------------------------------------------------------------------
(* Schedule converter: convert_schedule                                    *)

\* cached.confidence > 90
CachedThreshold == 90

\* pattern_result.confidence > 80
PatternThreshold == 80

\* calculate_agreement(nano_result, fuzzy_result) > 85
AgreementThreshold == 85

\* Confidences and agreements at and just above each threshold.
Levels ==
    UNION {{t, t + 1} :
             t \in {CachedThreshold, PatternThreshold, AgreementThreshold}}

NoMapping == [source |-> "", confidence |-> 0]

Mapping(source, confidence) == [source |-> source, confidence |-> confidence]

\* mapping_cache.get_org_mappings(organization_id), preceded by the test
\* that an organisation was named.
get_org_mappings(organization_id) ==
    IF organization_id /\ mapping_cache.org.present
    THEN [present |-> TRUE, confidence |-> mapping_cache.org.confidence]
    ELSE [present |-> FALSE, confidence |-> 0]

\* The cached mapping is used from the threshold on.
CacheHitAtThreshold(cached) ==
    cached.present /\ cached.confidence >= CachedThreshold

CacheHit(cached) == cached.present /\ cached.confidence > CachedThreshold

\* mapping_cache.store_mapping(result)
store_mapping(mapping) ==
    [mapping_cache EXCEPT !.stored = Append(@, mapping)]

\* The call returns the mapping.
Returned(frame, mapping) ==
    [frame EXCEPT !.pc = "returned", !.result = mapping]

\* The pages and the engine before anything is loaded or optimized.
InitPagesIdle ==
    /\ rawMetrics = NoMetrics
    /\ burdenScore = NoBurden
    /\ soa = NoSoa
    /\ firstRun = NotOptimized
    /\ secondRun = NotOptimized
    /\ views = NoViews
    /\ InitCollaborators
    /\ consensusInfo = NoInfo
    /\ isExpanded = FALSE
    /\ details = NothingRendered
    /\ route = "/upload"
    /\ schedule = NoSchedule
    /\ isOptimizing = FALSE
    /\ inflight = {}
    /\ response = NoResponse
    /\ run = NoRun
    /\ sessionStorage = NothingStored
    /\ result = NoResult
    /\ activeTab = "comparison"
    /\ page = UploadPage
    /\ runs = 0

InitConvert ==
    /\ mapping_cache \in
          {NoMappings} \cup
          {[org |-> [present |-> TRUE, confidence |-> c], stored |-> <<>>] :
             c \in Levels}
    /\ conversion = NotCalled
    /\ authState = SignedOut
    /\ localStorage = EmptyStorage
    /\ location = [href |-> "/", unloading |-> FALSE]
    /\ checkAuth = [pc |-> "idle", token |-> Null]
    /\ apiRequests = [k \in {"me", "other"} |-> NoRequest]
    /\ table = NoTable
    /\ InitPagesIdle

pinnedConvert ==
    <<table, authState, localStorage, location, checkAuth, apiRequests,
      rawMetrics, burdenScore, soa, firstRun, secondRun, views,
      consensusVars, runVars>>

\* convert_schedule is called; it runs up to its first return or await:
\* steps 1 and 2, then the call of GPT5-nano.
convert_schedule ==
    /\ conversion = NotCalled
    /\ \E organization_id \in BOOLEAN, confidence \in Levels :
          LET cached == get_org_mappings(organization_id)
              pattern_result == Mapping("pattern", confidence)
              frame == [pc |-> "await llm_nano",
                        organization_id |-> organization_id,
                        cached |-> cached,
                        pattern_result |-> pattern_result,
                        nano_result |-> NoMapping,
                        fuzzy_result |-> NoMapping,
                        agreement |-> 0,
                        judge_calls |-> 0,
                        result |-> NoMapping]
          IN  IF CacheHit(cached)
              THEN /\ conversion' =
                         Returned([frame EXCEPT
                                     !.pattern_result = NoMapping],
                                  Mapping("cache", cached.confidence))
                   /\ UNCHANGED mapping_cache
              ELSE IF pattern_result.confidence > PatternThreshold
              THEN /\ mapping_cache' = store_mapping(pattern_result)
                   /\ conversion' = Returned(frame, pattern_result)
              ELSE /\ conversion' = frame
                   /\ UNCHANGED mapping_cache
    /\ UNCHANGED pinnedConvert

\* GPT5-nano answers; steps 4 and 5, then the call of the judge.
analyze_structure ==
    /\ conversion.pc = "await llm_nano"
    /\ \E nano \in Levels, fuzzy \in Levels, agreement \in Levels,
          merged \in Levels :
          LET frame == [conversion EXCEPT
                          !.nano_result = Mapping("nano", nano),
                          !.fuzzy_result = Mapping("fuzzy", fuzzy),
                          !.agreement = agreement]
              final_result == Mapping("merged", merged)
          IN  IF agreement > AgreementThreshold
              THEN /\ mapping_cache' = store_mapping(final_result)
                   /\ conversion' = Returned(frame, final_result)
              ELSE /\ conversion' = [frame EXCEPT
                                       !.pc = "await llm_mini",
                                       !.judge_calls = @ + 1]
                   /\ UNCHANGED mapping_cache
    /\ UNCHANGED pinnedConvert

\* The GPT5-mini judge answers; its decision is stored and returned.
arbitrate ==
    /\ conversion.pc = "await llm_mini"
    /\ \E confidence \in Levels :
          LET judge_decision == Mapping("judge", confidence)
          IN  /\ mapping_cache' = store_mapping(judge_decision)
              /\ conversion' = Returned(conversion, judge_decision)
    /\ UNCHANGED pinnedConvert

NextConvert == convert_schedule \/ analyze_structure \/ arbitrate

\* Every awaited model call is answered.
SpecConvert ==
    InitConvert /\ [][NextConvert]_vars /\ WF_vars(NextConvert)

-----------------------------------------------------------------------------
(* App: authentication state, and the api service's interceptors           *)

\* error.response?.status === 401
Unauthorized == 401

Tokens == {"t1", "t2"}

Users == {"u1", "u2"}

\* Statuses of a response; 0 stands for an error without a response.
Statuses == {0, 200, Unauthorized, 403, 500}

Requests == {"me", "other"}

\* useState's initial value
InitialAuthState ==
    [user |-> Null, token |-> localStorage.token, isAuthenticated |-> FALSE]

Mounting == [pc |-> "mount", token |-> Null]

InitAuth ==
    /\ localStorage \in [token : Tokens \cup {Null}, user : Users \cup {Null}]
    /\ authState = InitialAuthState
    /\ location = [href |-> "/", unloading |-> FALSE]
    /\ checkAuth = Mounting
    /\ apiRequests = [k \in Requests |-> NoRequest]
    /\ table = NoTable
    /\ mapping_cache = NoMappings
    /\ conversion = NotCalled
    /\ InitPagesIdle

pinnedAuth ==
    <<table, mapping_cache, conversion, rawMetrics, burdenScore, soa, firstRun,
      secondRun, views, consensusVars, runVars>>

\* The mount effect: checkAuth reads the token and, if there is one, calls
\* getCurrentUser and awaits it.
checkAuth_mount ==
    /\ checkAuth.pc = "mount"
    /\ LET token == localStorage.token
       IN  IF token # Null
           THEN /\ checkAuth' = [pc |-> "await getCurrentUser",
                                 token |-> token]
                /\ apiRequests' = [apiRequests EXCEPT
                                     !["me"] = [phase |-> "sent",
                                                status |-> 0]]
           ELSE /\ checkAuth' = [pc |-> "done", token |-> Null]
                /\ UNCHANGED apiRequests
    /\ UNCHANGED <<authState, localStorage, location, pinnedAuth>>

\* The error handler forgets the session for every refused request.
SessionRefusedOrForbidden(status) == status \in {Unauthorized, 403}

\* error.response?.status === 401
SessionRefused(status) == status = Unauthorized

\* api.interceptors.response: a response to request k arrives.
interceptors_response ==
    \E k \in Requests, status \in Statuses :
        /\ apiRequests[k].phase = "sent"
        /\ IF status = 200
           THEN /\ apiRequests' = [apiRequests EXCEPT
                                     ![k] = [phase |-> "resolved",
                                             status |-> status]]
                /\ UNCHANGED <<localStorage, location>>
           ELSE /\ apiRequests' = [apiRequests EXCEPT
                                     ![k] = [phase |-> "rejected",
                                             status |-> status]]
                /\ IF SessionRefused(status)
                   THEN /\ localStorage' = EmptyStorage
                        /\ location' = [href |-> "/login",
                                        unloading |-> TRUE]
                   ELSE UNCHANGED <<localStorage, location>>
        /\ UNCHANGED <<authState, checkAuth, pinnedAuth>>

\* checkAuth's try branch: getCurrentUser resolved.
checkAuth_try ==
    /\ checkAuth.pc = "await getCurrentUser"
    /\ apiRequests["me"].phase = "resolved"
    /\ \E user \in Users :
          authState' = [user |-> user, token |-> checkAuth.token,
                        isAuthenticated |-> TRUE]
    /\ checkAuth' = [checkAuth EXCEPT !.pc = "done"]
    /\ apiRequests' = [apiRequests EXCEPT !["me"] = NoRequest]
    /\ UNCHANGED <<localStorage, location, pinnedAuth>>

\* checkAuth's catch branch: getCurrentUser was rejected.
checkAuth_catch ==
    /\ checkAuth.pc = "await getCurrentUser"
    /\ apiRequests["me"].phase = "rejected"
    /\ localStorage' = [localStorage EXCEPT !.token = Null]
    /\ authState' = SignedOut
    /\ checkAuth' = [checkAuth EXCEPT !.pc = "done"]
    /\ apiRequests' = [apiRequests EXCEPT !["me"] = NoRequest]
    /\ UNCHANGED <<location, pinnedAuth>>

\* handleLogin(user, token), offered by the login and register pages while
\* nobody is signed in.
handleLogin ==
    /\ ~authState.isAuthenticated
    /\ checkAuth.pc # "mount"
    /\ ~location.unloading
    /\ \E user \in Users, token \in Tokens :
          /\ localStorage' = [localStorage EXCEPT !.token = token]
          /\ authState' = [user |-> user, token |-> token,
                           isAuthenticated |-> TRUE]
    /\ UNCHANGED <<location, checkAuth, apiRequests, pinnedAuth>>

\* handleLogout, offered by the header while somebody is signed in.
handleLogout ==
    /\ authState.isAuthenticated
    /\ checkAuth.pc # "mount"
    /\ ~location.unloading
    /\ localStorage' = EmptyStorage
    /\ authState' = SignedOut
    /\ UNCHANGED <<location, checkAuth, apiRequests, pinnedAuth>>

\* Any other call of the api service is sent.
apiCall ==
    /\ apiRequests["other"].phase = "none"
    /\ checkAuth.pc # "mount"
    /\ ~location.unloading
    /\ apiRequests' = [apiRequests EXCEPT
                         !["other"] = [phase |-> "sent", status |-> 0]]
    /\ UNCHANGED <<authState, localStorage, location, checkAuth, pinnedAuth>>

\* Its caller takes the answer.
apiCallSettled ==
    /\ apiRequests["other"].phase \in {"resolved", "rejected"}
    /\ apiRequests' = [apiRequests EXCEPT !["other"] = NoRequest]
    /\ UNCHANGED <<authState, localStorage, location, checkAuth, pinnedAuth>>

\* window.location.href was assigned: the document is replaced and the App
\* mounts again.
Reload ==
    /\ location.unloading
    /\ location' = [location EXCEPT !.unloading = FALSE]
    /\ authState' = InitialAuthState
    /\ checkAuth' = Mounting
    /\ apiRequests' = [k \in Requests |-> NoRequest]
    /\ UNCHANGED <<localStorage, pinnedAuth>>

NextAuth ==
    \/ checkAuth_mount
    \/ interceptors_response
    \/ checkAuth_try
    \/ checkAuth_catch
    \/ handleLogin
    \/ handleLogout
    \/ apiCall
    \/ apiCallSettled
    \/ Reload

SpecAuth == InitAuth /\ [][NextAuth]_vars

-----------------------------------------------------------------------------
(* Claims about the reconciler and its display (under SpecConsensus)       *)

BothPresent == patternResult.def /\ llmResult.def

\* |pattern_confidence - llm_confidence| of the two inputs.
InputDiff == Abs(patternResult.val - llmResult.val)

\* C1: with both signals present and a difference of at most 20 (20 itself
\* included), reconcile returns the mean of the two confidences, method
\* "pattern & llm agreement", arbitration_used false, and does not invoke
\* the arbitrator.
C1_AgreementVerdict ==
    (outcome.done /\ BothPresent /\ InputDiff <= Pct(20)) =>
        /\ 2 * outcome.verdict.confidence = patternResult.val + llmResult.val
        /\ outcome.verdict.method = "pattern & llm agreement"
        /\ outcome.verdict.arbitration_used = FALSE
        /\ outcome.arbitrator_calls = 0

\* Reached: an agreement verdict on the boundary, the inputs 20 apart.
C1_Witness ==
    /\ outcome.done /\ BothPresent /\ InputDiff = Pct(20)
    /\ patternResult.val = Pct(70) /\ llmResult.val = Pct(90)
    /\ outcome.verdict.confidence = Pct(80)
    /\ outcome.verdict.method = "pattern & llm agreement"

\* C2: with both signals present and a difference above 20, reconcile
\* invokes the arbitrator; when it answers, the verdict has arbitration_used
\* true, method "llm arbitration used", the arbitrator's confidence, and
\* both original confidences stored as given (the arbitration tooltip then
\* shows their true difference).
C2_ArbitrationVerdict ==
    (outcome.done /\ BothPresent /\ InputDiff > Pct(20)) =>
        /\ outcome.arbitrator_calls = 1
        /\ arbitrator.kind = "answers" =>
            /\ outcome.verdict.arbitration_used = TRUE
            /\ outcome.verdict.method = "llm arbitration used"
            /\ outcome.verdict.confidence = arbitrator.confidence
            /\ outcome.verdict.pattern_confidence = patternResult
            /\ outcome.verdict.llm_confidence = llmResult
            /\ details.mounted => details.icon = "ExclamationCircleIcon"
            /\ details.expanded =>
                details.arbitration = Row(TRUE, InputDiff)

\* Reached: pattern 90, llm 50, the arbitrator answers 60, shown expanded.
C2_Witness ==
    /\ outcome.done
    /\ patternResult = Num(Pct(90)) /\ llmResult = Num(Pct(50))
    /\ arbitrator = [kind |-> "answers", confidence |-> Pct(60)]
    /\ outcome.verdict.arbitration_used
    /\ outcome.verdict.confidence = Pct(60)
    /\ details.expanded

\* The label that names a verdict's method on the panel.
LabelOfMethod(method) ==
    CASE method = "pattern matching only" -> "Pattern Matching Only"
      [] method = "llm only" -> "LLM Only"
      [] method = "pattern & llm agreement" -> "Pattern & LLM Agreement"
      [] method = "llm arbitration used" -> "LLM Arbitration Used"
      [] method = "not_available" -> "MCP Analysis Not Available"
      [] OTHER -> "Pattern Matching Only (Arbitration Unavailable)"

\* C3: with exactly one signal present the verdict carries that signal's
\* confidence, names that source as its method, has arbitration_used
\* false, and the label shown names the same single source.
C3_SingleSource ==
    /\ (outcome.done /\ patternResult.def /\ ~llmResult.def) =>
        /\ outcome.verdict.confidence = patternResult.val
        /\ outcome.verdict.method = "pattern matching only"
        /\ outcome.verdict.arbitration_used = FALSE
    /\ (outcome.done /\ ~patternResult.def /\ llmResult.def) =>
        /\ outcome.verdict.confidence = llmResult.val
        /\ outcome.verdict.method = "llm only"
        /\ outcome.verdict.arbitration_used = FALSE
    /\ (details.expanded /\ patternResult.def # llmResult.def) =>
        details.label = LabelOfMethod(outcome.verdict.method)

\* What the expanded panel shows for the same inputs with one signal taken
\* away.
PanelWithout(pattern, llm) ==
    MCPConsensusDetails(Info(reconcile(pattern, llm, arbitrator).verdict), TRUE)

\* C4: a signal present with confidence 0 is treated as present: the
\* verdict's state, the label and the signal's confidence row are those of
\* a present signal, and differ from what the same input gives with that
\* signal absent.
C4_ZeroIsPresent ==
    /\ (outcome.done /\ patternResult = Num(0)) =>
        /\ outcome.verdict.pattern_confidence = Num(0)
        /\ outcome.verdict.method
               # reconcile(Undefined, llmResult, arbitrator).verdict.method
        /\ details.expanded =>
            /\ details.label = LabelOfMethod(outcome.verdict.method)
            /\ details.pattern = Row(TRUE, 0)
            /\ details # PanelWithout(Undefined, llmResult)
    /\ (outcome.done /\ llmResult = Num(0)) =>
        /\ outcome.verdict.llm_confidence = Num(0)
        /\ outcome.verdict.method
               # reconcile(patternResult, Undefined, arbitrator).verdict.method
        /\ details.expanded =>
            /\ details.label = LabelOfMethod(outcome.verdict.method)
            /\ details.llm = Row(TRUE, 0)
            /\ details # PanelWithout(patternResult, Undefined)

\* C7: arbitration_used is true exactly when both signals were present,
\* differed by more than 20 and the arbitrator answered; the arbitrator is
\* invoked in no other case than two present signals more than 20 apart;
\* and the panel says "LLM Arbitration Used" exactly for such a verdict.
C7_ArbitrationOnlyOnDisagreement ==
    outcome.done =>
        /\ outcome.verdict.arbitration_used
               <=> (BothPresent /\ InputDiff > Pct(20)
                    /\ arbitrator.kind = "answers")
        /\ outcome.arbitrator_calls > 0 => (BothPresent /\ InputDiff > Pct(20))
        /\ details.expanded =>
               (details.label = "LLM Arbitration Used"
                    <=> outcome.verdict.arbitration_used)

\* Reached: two signals 25 apart, the arbitrator invoked and timed out, so
\* arbitration_used stays false.
C7_Witness ==
    /\ outcome.done /\ BothPresent /\ InputDiff = Pct(25)
    /\ arbitrator.kind = "timeout"
    /\ outcome.arbitrator_calls = 1
    /\ ~outcome.verdict.arbitration_used
    /\ details.expanded

-----------------------------------------------------------------------------
(* Claims about the optimization run and the results page (under Spec)     *)

\* A response is handed to handleOptimize in this step.
Delivered == response.kind # "none" /\ response'.kind = "none"

C5_Reconciled ==
    (outcome.done /\ ~patternResult.def /\ ~llmResult.def) =>
        /\ outcome.verdict.method = "not_available"
        /\ outcome.verdict.confidence = 0
        /\ outcome.arbitrator_calls = 0
        /\ response.kind = "ok"
        /\ response.result.present
        /\ response.result.mcp_consensus_info = outcome.verdict

C5_Shown ==
    (details.mounted /\ consensusInfo.info.method = "not_available") =>
        /\ details.icon = "CpuChipIcon"
        /\ details.expanded =>
            /\ details.label = "MCP Analysis Not Available"
            /\ details.overall = Row(FALSE, 0)
            /\ details.pattern = Row(FALSE, 0)
            /\ details.llm = Row(FALSE, 0)
            /\ details.arbitration = Row(FALSE, 0)

C5_HandedOver ==
    (Delivered /\ response.kind = "ok" /\ route # "/results") =>
        /\ route' = "/results"
        /\ result'.present
        /\ consensusInfo' = Info(response.result.mcp_consensus_info)

C6_ArbitrationFallback ==
    (outcome.done /\ BothPresent /\ InputDiff > Pct(20)
        /\ arbitrator.kind \in {"unreachable", "timeout"}) =>
        /\ outcome.verdict.confidence = patternResult.val
        /\ outcome.verdict.method
               = "pattern matching only (arbitration unavailable)"
        /\ outcome.verdict.arbitration_used = FALSE
        /\ response.kind = "ok"
        /\ response.result.present
        /\ response.result.mcp_consensus_info = outcome.verdict

\* Reached: pattern 100, llm 0, the arbitrator timed out, and the run's
\* response is a result with confidence 100.
C6_Witness ==
    /\ outcome.done
    /\ patternResult = Num(Pct(100)) /\ llmResult = Num(0)
    /\ arbitrator.kind = "timeout"
    /\ response.kind = "ok"
    /\ response.result.mcp_consensus_info.confidence = Pct(100)

\* C8: for a result with original_total = 0 the improvement percentage
\* reported is 0: the one the result carries, the "Patient Burden
\* Reduction" card and the comparison tab's improvement.
C8_ZeroOriginalReportsZero ==
    (route = "/results" /\ result.present /\ result.original_total = 0) =>
        /\ result.improvement_percentage = ImprovementPercentage(0, 0)
        /\ page.patientBurdenReduction = Finite(0)
        /\ page.comparison.shown => page.comparison.improvement = Finite(0)

C9_RunFails ==
    (run.ran /\ ~run.schedule.valid) =>
        /\ response = Failure(response.to, "InvalidScheduleError")
        /\ ~response.result.present
        /\ ~outcome.done
        /\ run.compliance = NotAsked

C9_NothingKept ==
    (Delivered /\ response.error = "InvalidScheduleError") =>
        UNCHANGED <<sessionStorage, route, result, page, consensusInfo, details>>

\* C9: a run on an invalid schedule ends with InvalidScheduleError and
\* carries no result, no later collaborator having been asked; and handing
\* that failure to handleOptimize changes neither sessionStorage nor the
\* route nor anything displayed.
C9_InvalidScheduleLeavesNoResult ==
    /\ []C9_RunFails
    /\ [][C9_NothingKept]_vars

\* Reached: the failure of a run on an invalid schedule, on its way to an
\* upload page with nothing stored.
C9_Witness ==
    /\ run.ran /\ ~run.schedule.valid
    /\ response.error = "InvalidScheduleError"
    /\ route = "/upload"
    /\ sessionStorage = NothingStored

\* C10: when the compliance collaborator fails, the run answers with a
\* result whose warnings list is empty and whose other fields are those of
\* the same run with a collaborator that succeeded, whatever it returned;
\* and the warnings tab shows an empty list as "No compliance warnings
\* detected".
C10_ComplianceFailureIsNotFatal ==
    /\ (run.ran /\ run.compliance = ComplianceFailed) =>
        /\ response.kind = "ok"
        /\ response.result.present
        /\ response.result.warnings = <<>>
        /\ \A n \in 0..MaxWarnings :
            response.result =
                [runOptimization(response.to, run.schedule, run.engine,
                                 ComplianceSucceeded(n), outcome.verdict).result
                    EXCEPT !.warnings = <<>>]
    /\ (route = "/results" /\ result.present /\ activeTab = "warnings"
            /\ result.warnings = <<>>) =>
        page.warnings = "No compliance warnings detected"

\* Reached: the result of a run whose compliance check failed, with a
\* suggestion and no warning.
C10_Witness ==
    /\ run.ran /\ run.compliance = ComplianceFailed
    /\ response.kind = "ok"
    /\ response.result.suggestions = 1
    /\ response.result.warnings = <<>>

-----------------------------------------------------------------------------
(* Claims about the Burden Calculator (under SpecBurden)                   *)

\* score < n, for a score held as a fraction.
Below(score, n) == score.num < n * score.den

Bands == {"Low", "Moderate", "High", "Very High"}

\* C18: the band is a total function of total_score with each boundary in
\* the upper band: below 25 Low, from 25 below 50 Moderate, from 50 below
\* 75 High, from 75 Very High; every score has exactly one of the four
\* bands, and the badge shown for it is that band's own.
C18_CategoryBands ==
    burdenScore.computed =>
        LET score == burdenScore.total_score IN
        /\ burdenScore.category \in Bands
        /\ burdenScore.category = "Low" <=> Below(score, 25)
        /\ burdenScore.category = "Moderate"
               <=> (~Below(score, 25) /\ Below(score, 50))
        /\ burdenScore.category = "High"
               <=> (~Below(score, 50) /\ Below(score, 75))
        /\ burdenScore.category = "Very High" <=> ~Below(score, 75)
        /\ burdenScore.badge # getCategoryBadge("none of the bands")
        /\ \A band \in Bands \ {burdenScore.category} :
               burdenScore.badge # getCategoryBadge(band)

\* Reached: a schedule scoring exactly 50 (full time and travel components,
\* nothing else), in the band High.
C18_Witness ==
    /\ burdenScore.computed
    /\ burdenScore.total_score.num = 50 * burdenScore.total_score.den
    /\ burdenScore.category = "High"

InPercentRange(fraction) ==
    /\ fraction.den > 0
    /\ 0 <= fraction.num
    /\ fraction.num <= 100 * fraction.den

-----------------------------------------------------------------------------
(* Claims about the Rules Engine (under SpecRules)                         *)

\* The run took place and returned a schedule.
Ran(optimized) == optimized # NotOptimized /\ ~optimized.error

Types(optimized) ==
    {optimized.suggestions[i].type : i \in 1..Len(optimized.suggestions)}

AllNames(visits) == UNION {Names(visits[i]) : i \in 1..Len(visits)}

Ids(visits) == {visits[i].id : i \in 1..Len(visits)}

\* C11.  Idempotence: the engine run on its own output returns that
\* schedule unchanged and no suggestion.
C11_Idempotent ==
    Ran(secondRun) =>
        /\ secondRun.schedule = firstRun.schedule
        /\ secondRun.suggestions = <<>>

\* C12.  Conservation: every assessment name of the optimized schedule
\* occurs in the original schedule, whatever rules were applied, and the
\* page counts no more assessments after the run than before it.
C12_Conservation ==
    /\ Ran(firstRun) =>
          AllNames(firstRun.schedule.visits) \subseteq AllNames(soa.visits)
    /\ Ran(secondRun) =>
          AllNames(secondRun.schedule.visits) \subseteq AllNames(soa.visits)
    /\ views.shown =>
          views.optimizedTotalAssessments <= views.originalTotalAssessments

\* A run that consolidated two visits, marked an assessment remote and
\* eliminated another, shown.
C12_Witness ==
    /\ Ran(firstRun)
    /\ views.shown
    /\ {"consolidation", "remote_conversion", "elimination"}
          \subseteq Types(firstRun)
    /\ \E i \in 1..Len(firstRun.schedule.visits) :
          firstRun.schedule.visits[i].combined
    /\ \E a \in Occurrences(firstRun.schedule.visits) :
          firstRun.schedule.visits[a[1]].assessments[a[2]].remote
    /\ views.optimizedTotalAssessments < views.originalTotalAssessments

\* C13.  Burden monotonicity: for every change the run applied, the burden
\* score of the visits it affects is, after the change, no higher than it
\* was before.
C13_BurdenMonotone ==
    Ran(firstRun) =>
        \A k \in 1..Len(firstRun.steps) :
            ScoreLeq(firstRun.steps[k].after, firstRun.steps[k].before)

\* The two visits of a schedule qualify for consolidation.
TwoCloseVisits ==
    /\ soa.valid
    /\ Len(soa.visits) = 2
    /\ Abs(soa.visits[2].day - soa.visits[1].day) <= ProximityWindow
    /\ Hours(soa.visits[1]) + Hours(soa.visits[2]) <= DurationCeiling
    /\ Conflicts(soa.visits[1]) + Conflicts(soa.visits[2])
          < ConflictThreshold

NamesInOrder(assessments) ==
    [i \in 1..Len(assessments) |-> assessments[i].name]

Position(suggestion) ==
    CHOOSE k \in 1..Len(firstRun.steps) :
        firstRun.steps[k].suggestion = suggestion

\* C15.  The suggestions of a run are those the pipeline produced, ordered
\* by estimated burden reduction, descending, suggestions of equal reduction
\* in pipeline order; the suggestion list of the page shows them in this
\* order and the comparison tab shows the first of them in this order.
C15_SuggestionOrder ==
    /\ Ran(firstRun) =>
          /\ Len(firstRun.suggestions) = Len(firstRun.steps)
          /\ \A k \in 1..Len(firstRun.steps) :
                \E i \in 1..Len(firstRun.suggestions) :
                    firstRun.suggestions[i] = firstRun.steps[k].suggestion
          /\ \A i, j \in 1..Len(firstRun.suggestions) :
                i < j =>
                   /\ firstRun.suggestions[i].estimated_burden_reduction
                        >= firstRun.suggestions[j].estimated_burden_reduction
                   /\ firstRun.suggestions[i].estimated_burden_reduction
                        = firstRun.suggestions[j].estimated_burden_reduction
                      => Position(firstRun.suggestions[i])
                           < Position(firstRun.suggestions[j])
    /\ views.shown =>
          /\ views.list = firstRun.suggestions
          /\ Len(views.comparison) <= SuggestionsListed
          /\ Len(views.comparison) = Len(firstRun.suggestions)
                \/ Len(views.comparison) = SuggestionsListed
          /\ \A k \in 1..Len(views.comparison) :
                views.comparison[k] = firstRun.suggestions[k]

\* A run shown whose suggestions the sort reordered and two of which have
\* the same estimated reduction.
C15_Witness ==
    /\ Ran(firstRun)
    /\ views.shown
    /\ Len(views.list) >= 3
    /\ \E k \in 1..Len(firstRun.steps) :
          firstRun.steps[k].suggestion # firstRun.suggestions[k]
    /\ \E i, j \in 1..Len(views.list) :
          /\ i < j
          /\ views.list[i].estimated_burden_reduction
               = views.list[j].estimated_burden_reduction
    /\ \E i, j \in 1..Len(views.list) :
          views.list[i].estimated_burden_reduction
             > views.list[j].estimated_burden_reduction

\* C16.  With the day-mutation flag at its default the Rescheduling rule
\* only suggests: every visit of the optimized schedule has the day it has
\* in the original schedule.
C16_DaysKept ==
    (~MutateDays /\ Ran(firstRun)) =>
        \A i \in 1..Len(firstRun.schedule.visits) :
            \E j \in 1..Len(soa.visits) :
                /\ soa.visits[j].id = firstRun.schedule.visits[i].id
                /\ soa.visits[j].day = firstRun.schedule.visits[i].day

\* A run that suggested a rescheduling for two visits that both survive.
C16_Witness ==
    /\ Ran(firstRun)
    /\ \E k \in 1..Len(firstRun.suggestions) :
          /\ firstRun.suggestions[k].type = "rescheduling"
          /\ firstRun.suggestions[k].visits_affected
               \subseteq Ids(firstRun.schedule.visits)
    /\ Len(firstRun.schedule.visits) = Len(soa.visits)

\* The visits rules 1-2 left without an assessment.
Emptied(optimized) ==
    {optimized.consolidated[i].id :
        i \in {k \in 1..Len(optimized.consolidated) :
                 optimized.consolidated[k].assessments = <<>>}}

EveryAssessmentUnique(visits) ==
    /\ RedundantPairs(visits) = {}
    /\ \A o, q \in Occurrences(visits) :
          o # q => visits[o[1]].assessments[o[2]].name
                     # visits[q[1]].assessments[q[2]].name

\* No two adjacent visits are close, short and light enough to consolidate.
NothingToConsolidate(visits) ==
    \A i \in 1..(Len(visits) - 1) :
        \/ Abs(visits[i + 1].day - visits[i].day) > ProximityWindow
        \/ Hours(visits[i]) + Hours(visits[i + 1]) > DurationCeiling
        \/ Conflicts(visits[i]) + Conflicts(visits[i + 1])
              >= ConflictThreshold

NothingRemoteFeasible(visits) ==
    \A o \in Occurrences(visits) :
        ~visits[o[1]].assessments[o[2]].remote_feasible

NoWindowsOverlap(visits) ==
    \A i \in 1..(Len(visits) - 1) : ~Overlap(visits[i], visits[i + 1])

C21_EverySuggestionApplied ==
    /\ Ran(firstRun) =>
          \A k \in 1..Len(firstRun.steps) : firstRun.steps[k].applied
    /\ views.shown =>
          /\ \A i \in 1..Len(views.list) : views.listApplied[i]
          /\ \A i \in 1..Len(views.comparison) : views.comparisonApplied[i]

-----------------------------------------------------------------------------
(* Claims about the schedule converter (under SpecConvert)                 *)

\* The branch the cascade has to take for what the call saw.
Branch(frame) ==
    IF /\ frame.organization_id
       /\ mapping_cache.org.present
       /\ mapping_cache.org.confidence > CachedThreshold
    THEN "cache"
    ELSE IF frame.pattern_result.confidence > PatternThreshold
    THEN "pattern"
    ELSE IF frame.agreement > AgreementThreshold THEN "merged"
    ELSE "judge"

CascadeFollowed ==
    conversion.pc = "returned" =>
        /\ conversion.result.source = Branch(conversion)
        /\ conversion.judge_calls
             = (IF conversion.result.source = "judge" THEN 1 ELSE 0)
        /\ mapping_cache.stored
             = (IF conversion.result.source = "cache" THEN <<>>
                ELSE <<conversion.result>>)

WaitsForModelsOnly ==
    conversion.pc \in {"idle", "await llm_nano", "await llm_mini", "returned"}

-----------------------------------------------------------------------------
(* Claims about authentication (under SpecAuth)                            *)

\* C23.  Whenever authState.isAuthenticated holds, authState.user is not
\* null and localStorage's token is present and equal to authState.token.
C23_AuthenticatedMeansStoredToken ==
    authState.isAuthenticated =>
        /\ authState.user # Null
        /\ localStorage.token # Null
        /\ localStorage.token = authState.token

\* A response to request k has just passed the response interceptor.
Arrived(k) ==
    /\ apiRequests[k].phase = "sent"
    /\ apiRequests'[k].phase \in {"resolved", "rejected"}

-----------------------------------------------------------------------------
(* Claims about the upload and results pages (under SpecPages)             *)

\* The continuation of handleOptimize takes the answer of its request.
Resumes == response # NoResponse /\ response' = NoResponse

Live == {r \in inflight : r.live}

Started == Cardinality(inflight') > Cardinality(inflight)

-----------------------------------------------------------------------------
(* Claims about the views of a result (under SpecViews)                    *)

\* The suggestions each view marks as applied.
ListApplied ==
    {views.list[i] : i \in {k \in 1..Len(views.list) : views.listApplied[k]}}

ComparisonApplied ==
    {views.comparison[i] :
        i \in {k \in 1..Len(views.comparison) : views.comparisonApplied[k]}}

\* The list is ordered by descending estimated reduction.
Descending(suggestions) ==
    \A i, j \in 1..Len(suggestions) :
        i < j => suggestions[i].estimated_burden_reduction
                   >= suggestions[j].estimated_burden_reduction

MatchedBy(j) ==
    {i \in 1..Len(soa.visits) :
        FindVisit(firstRun.schedule.visits, soa.visits[i]) = j}

RemovedInAll ==
    Total([i \in 1..Len(views.changes) |-> views.changes[i].removed])

AssessmentReduction ==
    views.originalTotalAssessments - views.optimizedTotalAssessments

C30_DurationCellDenotesMinutes ==
    \A rows \in {table.original, table.optimized} :
        \A i \in 1..Len(rows) :
            /\ rows[i].h * 60 + rows[i].m = rows[i].duration
            /\ rows[i].m >= 0
            /\ rows[i].m < 60

====
